---- MODULE Spec2Model ----
(***************************************************************************)
(* A model of LlamaDB's query engine: the Variant value system             *)
(* (src/src/types/variant.rs, src/src/columnvalueops.rs), the plan         *)
(* compiler (src/src/queryplan/mod.rs) and the tree-walking executor       *)
(* (src/src/queryplan/execute/mod.rs) over the in-memory table store       *)
(* (src/src/tempdb).                                                       *)
(*                                                                         *)
(* Conventions.                                                            *)
(*  - Option<T> is [k |-> "None"] or [k |-> "Some", v |-> x];              *)
(*    Result<T, ()> is [k |-> "Ok", v |-> x] or [k |-> "Err"]; a Rust      *)
(*    panic (panic!, unwrap on None, assert, unimplemented!, index out of  *)
(*    range) is [k |-> "Panic"].                                           *)
(*  - Strings and byte vectors are sequences of byte values (0..255).      *)
(*  - A 64-bit integer is written as the two's complement reading of its   *)
(*    bit pattern, for both i64 and u64: UnsignedInteger(-1) is the u64    *)
(*    0xFFFF_FFFF_FFFF_FFFF. The casts between i64 and u64 keep the        *)
(*    pattern, and the unsigned order is defined on patterns.              *)
(*  - A Float is an exact rational <<n, d>> in lowest terms, d > 0.        *)
(*  - Every Variant is [t |-> variant, v |-> payload], the payload always   *)
(*    a tuple of integers: <<>> for Null, the bytes, <<n>>, or <<n, d>>.    *)
(***************************************************************************)
EXTENDS Integers, Sequences, FiniteSets, TLC

VARIABLES
    va, vb, vc,     \* operands of the value operations
    vop,            \* the value operation applied last ("none" before any)
    vres,           \* its result
    tempdb,         \* TempDb.tables: the vector of tables
    statement,      \* the statement executed last
    queryplan,      \* Result<QueryPlan, QueryPlanCompileError> of that statement
    outcome         \* the ExecuteStatementResult, with the rows delivered

vars == <<va, vb, vc, vop, vres, tempdb, statement, queryplan, outcome>>

(***************************************************************************)
(* Bounds of the model.                                                    *)
(***************************************************************************)
MaxLen == 2         \* longest Bytes / String operand drawn
MaxAbs == 1         \* integers and floats are drawn from -MaxAbs..MaxAbs
MaxRows == 3        \* rows stored in the tables of the database, in total

(***************************************************************************)
(* Option, Result, panic.                                                  *)
(***************************************************************************)
None == [k |-> "None"]
NoTables == <<>>
NoStmt == [k |-> "None"]
Some(x) == [k |-> "Some", v |-> x]
Ok(x) == [k |-> "Ok", v |-> x]
Err == [k |-> "Err"]
Panic == [k |-> "Panic"]

(***************************************************************************)
(* Sequence helpers.                                                       *)
(***************************************************************************)
SeqsUpTo(S, n) == UNION {[1..m -> S] : m \in 0..n}

RECURSIVE Repeat(_, _)
Repeat(x, n) == IF n <= 0 THEN <<>> ELSE <<x>> \o Repeat(x, n - 1)

\* Rust's Ord on Vec<u8> and on String: lexicographic over the bytes.
RECURSIVE LexLess(_, _)
LexLess(l, r) ==
    IF r = <<>> THEN FALSE
    ELSE IF l = <<>> THEN TRUE
    ELSE IF Head(l) # Head(r) THEN Head(l) < Head(r)
    ELSE LexLess(Tail(l), Tail(r))

\* The order of u64 on bit patterns written in their signed reading.
ULess(l, r) ==
    IF (l >= 0) = (r >= 0) THEN l < r ELSE l >= 0

(***************************************************************************)
(* Variant (types/variant.rs:9-16) and DbType (types/mod.rs:9-26).         *)
(***************************************************************************)
Null == [t |-> "Null", v |-> <<>>]
Bytes(v) == [t |-> "Bytes", v |-> v]
StringLiteral(s) == [t |-> "StringLiteral", v |-> s]
SignedInteger(n) == [t |-> "SignedInteger", v |-> <<n>>]
UnsignedInteger(n) == [t |-> "UnsignedInteger", v |-> <<n>>]
Float(n, d) == [t |-> "Float", v |-> <<n, d>>]

DbNull == [k |-> "Null"]
ByteDynamic == [k |-> "ByteDynamic"]
ByteFixed(n) == [k |-> "ByteFixed", n |-> n]
Integer(signed, bytes) == [k |-> "Integer", signed |-> signed, bytes |-> bytes]
F64 == [k |-> "F64"]
DbString == [k |-> "String"]

from_bool(value) == UnsignedInteger(IF value THEN 1 ELSE 0)

(***************************************************************************)
(* Decimal text, as fmt::Display writes it.                                *)
(***************************************************************************)
RECURSIVE NatToStr(_)
NatToStr(n) ==
    IF n < 10 THEN <<48 + n>> ELSE NatToStr(n \div 10) \o <<48 + (n % 10)>>

IntToStr(n) == IF n < 0 THEN <<45>> \o NatToStr(-n) ELSE NatToStr(n)

\* The decimal digits of the u64 with pattern n: for a negative reading that
\* is 2^64 + n = 18446744073709551616 + n, written here for -1616 <= n < 0.
U64ToStr(n) ==
    IF n >= 0 THEN NatToStr(n)
    ELSE <<49, 56, 52, 52, 54, 55, 52, 52, 48, 55, 51, 55, 48, 57, 53, 53>>
         \o LET low == NatToStr(1616 + n) IN Repeat(48, 4 - Len(low)) \o low

\* "{:?}" of a Vec<u8>: [1, 2]
RECURSIVE ByteListStr(_)
ByteListStr(v) ==
    IF v = <<>> THEN <<>>
    ELSE IF Len(v) = 1 THEN NatToStr(v[1])
    ELSE NatToStr(v[1]) \o <<44, 32>> \o ByteListStr(Tail(v))

\* "{}" of an f64: an integral value prints without a fraction, a half
\* prints with ".5"; the model draws no other denominators into a string.
FloatToStr(f) ==
    LET n == f[1]
        d == f[2]
        a == IF n < 0 THEN -n ELSE n
        sign == IF n < 0 THEN <<45>> ELSE <<>>
    IN  IF d = 1 THEN sign \o NatToStr(a)
        ELSE sign \o NatToStr(a \div d) \o <<46>> \o NatToStr(((a % d) * 10) \div d)

NULLStr == <<78, 85, 76, 76>>

to_string(e) ==
    CASE e.t = "Null" -> NULLStr
      [] e.t = "Bytes" -> <<91>> \o ByteListStr(e.v) \o <<93>>
      [] e.t = "StringLiteral" -> e.v
      [] e.t = "SignedInteger" -> IntToStr(e.v[1])
      [] e.t = "UnsignedInteger" -> U64ToStr(e.v[1])
      [] e.t = "Float" -> FloatToStr(e.v)

(***************************************************************************)
(* byteutils.rs: the order-preserving integer and float encodings.         *)
(***************************************************************************)
\* Byte j (0 = least significant) of the 64-bit pattern with signed reading
\* v, for |v| < 2^24: above the third byte only the sign extension is left.
ByteAt(v, j) ==
    IF j >= 3 THEN (IF v < 0 THEN 255 ELSE 0) ELSE (v \div (256 ^ j)) % 256

RECURSIVE FoldNum(_, _)
FoldNum(prev, bytes) ==
    IF bytes = <<>> THEN prev
    ELSE FoldNum(prev * 256 + Head(bytes), Tail(bytes))

Complement(bytes) == [i \in 1..Len(bytes) |-> 255 - bytes[i]]

\* Flipping the top bit of the first byte: x ^ (1 << (8n - 1)).
FlipTop(bytes) == [i \in 1..Len(bytes) |-> IF i = 1 THEN (bytes[i] + 128) % 256 ELSE bytes[i]]

\* The two's complement reading of a big-endian byte string.
TwosComplement(bytes) ==
    IF bytes[1] >= 128 THEN -(FoldNum(0, Complement(bytes)) + 1)
    ELSE FoldNum(0, bytes)

\* fold(0, |prev, v| (prev << 8) | v): a u64; eight bytes fill the pattern.
read_udbinteger(bytes) ==
    IF Len(bytes) < 1 \/ Len(bytes) > 8 THEN Panic
    ELSE IF Len(bytes) = 8 THEN Ok(TwosComplement(bytes))
    ELSE Ok(FoldNum(0, bytes))

\* value - 2^(8n-1), wrapping: the two's complement reading of the bytes
\* with the top bit flipped.
read_sdbinteger(bytes) ==
    IF Len(bytes) < 1 \/ Len(bytes) > 8 THEN Panic
    ELSE Ok(TwosComplement(FlipTop(bytes)))

write_udbinteger(value, len) ==
    IF len < 1 \/ len > 8 THEN Panic
    ELSE Ok([i \in 1..len |-> ByteAt(value, len - i)])

\* The low bytes as they are, the top bit not flipped.
write_sdbinteger_twos_complement(value, len) ==
    IF len < 1 \/ len > 8 THEN Panic
    ELSE Ok([i \in 1..len |-> ByteAt(value, len - i)])

write_sdbinteger(value, len) ==
    IF len < 1 \/ len > 8 THEN Panic
    ELSE Ok(FlipTop([i \in 1..len |-> ByteAt(value, len - i)]))

\* The two leading bytes of the IEEE 754 pattern of a non-negative double
\* (the other six are zero for every value listed).
F64Table ==
    { <<<<0, 1>>, <<0, 0>>>>, <<<<1, 2>>, <<63, 224>>>>, <<<<1, 1>>, <<63, 240>>>>,
      <<<<3, 2>>, <<63, 248>>>>, <<<<2, 1>>, <<64, 0>>>>, <<<<5, 2>>, <<64, 4>>>>,
      <<<<3, 1>>, <<64, 8>>>>, <<<<7, 2>>, <<64, 12>>>>, <<<<4, 1>>, <<64, 16>>>> }

F64RawBits(n, d) ==
    LET e == CHOOSE x \in F64Table : x[1] = <<IF n < 0 THEN -n ELSE n, d>>
    IN  <<e[2][1] + (IF n < 0 THEN 128 ELSE 0), e[2][2], 0, 0, 0, 0, 0, 0>>

write_dbfloat(f) ==
    IF f[1] < 0 THEN Complement(F64RawBits(f[1], f[2]))
    ELSE FlipTop(F64RawBits(f[1], f[2]))

\* A pattern outside the table is no value of the model (TLC stops on it).
read_dbfloat(bytes) ==
    IF Len(bytes) # 8 THEN Panic
    ELSE LET raw == IF bytes[1] < 128 THEN Complement(bytes) ELSE FlipTop(bytes)
             mag == <<raw[1] % 128, raw[2]>>
             e == CHOOSE x \in F64Table : x[2] = mag /\ SubSeq(raw, 3, 8) = <<0, 0, 0, 0, 0, 0>>
         IN  Ok(<<IF raw[1] >= 128 THEN -e[1][1] ELSE e[1][1], e[1][2]>>)

\* String::from_utf8_lossy on the bytes the model draws: ASCII is kept and a
\* byte that starts no UTF-8 sequence becomes U+FFFD (EF BF BD).
RECURSIVE from_utf8_lossy(_)
from_utf8_lossy(bytes) ==
    IF bytes = <<>> THEN <<>>
    ELSE (IF Head(bytes) < 128 THEN <<Head(bytes)>> ELSE <<239, 191, 189>>)
         \o from_utf8_lossy(Tail(bytes))

(***************************************************************************)
(* impl ColumnValueOps for Variant (types/variant.rs).                     *)
(***************************************************************************)
from_bytes(dbtype, bytes) ==
    CASE dbtype.k = "Null" -> Ok(Null)
      [] dbtype.k = "ByteDynamic" -> Ok(Bytes(bytes))
      [] dbtype.k = "ByteFixed" ->
            IF Len(bytes) # dbtype.n THEN Err ELSE Ok(Bytes(bytes))
      [] dbtype.k = "Integer" ->
            IF Len(bytes) # dbtype.bytes THEN Err
            ELSE IF dbtype.signed
                 THEN LET r == read_sdbinteger(bytes)
                      IN  IF r.k = "Ok" THEN Ok(SignedInteger(r.v)) ELSE r
                 ELSE LET r == read_udbinteger(bytes)
                      IN  IF r.k = "Ok" THEN Ok(UnsignedInteger(r.v)) ELSE r
      [] dbtype.k = "F64" ->
            LET r == read_dbfloat(bytes)
            IN  IF r.k = "Ok" THEN Ok(Float(r.v[1], r.v[2])) ELSE r
      [] dbtype.k = "String" ->
            IF Len(bytes) > 0 /\ bytes[Len(bytes)] = 0
            THEN Ok(StringLiteral(from_utf8_lossy(SubSeq(bytes, 1, Len(bytes) - 1))))
            ELSE Err

get_dbtype(self) ==
    CASE self.t = "Null" -> DbNull
      [] self.t = "Bytes" -> ByteFixed(Len(self.v))
      [] self.t = "StringLiteral" -> DbString
      [] self.t = "SignedInteger" -> Integer(TRUE, 8)
      [] self.t = "UnsignedInteger" -> Integer(FALSE, 8)
      [] self.t = "Float" -> F64

to_3vl(self) ==
    LET b(value) == IF value THEN 1 ELSE -1
    IN  CASE self.t = "Null" -> 0
          [] self.t = "Bytes" -> b(self.v # <<>>)
          [] self.t = "StringLiteral" -> b(self.v # <<>>)
          [] self.t = "SignedInteger" -> b(self.v[1] # 0)
          [] self.t = "UnsignedInteger" -> b(self.v[1] # 0)
          [] self.t = "Float" -> b(self.v[1] # 0)

from_3vl(value) ==
    CASE value = -1 -> from_bool(FALSE)
      [] value = 0 -> Null
      [] value = 1 -> from_bool(TRUE)
      [] OTHER -> Panic

\* `float as i64` truncates towards zero; `float as u64` of a negative value
\* is written as saturating at zero.
TruncFloat(f) == IF f[1] >= 0 THEN f[1] \div f[2] ELSE -((-f[1]) \div f[2])

RECURSIVE cast(_, _), to_bytes(_, _), to_bytes_arms(_, _)
cast(self, dbtype) ==
    CASE \/ self.t = "Null" /\ dbtype.k = "Null"
         \/ self.t = "Bytes" /\ dbtype.k = "ByteDynamic"
         \/ self.t = "StringLiteral" /\ dbtype.k = "String"
         \/ self.t = "SignedInteger" /\ dbtype.k = "Integer" /\ dbtype.signed
         \/ self.t = "UnsignedInteger" /\ dbtype.k = "Integer" /\ ~dbtype.signed
         \/ self.t = "Float" /\ dbtype.k = "F64" -> Some(self)
      [] OTHER ->
    CASE dbtype.k = "String" -> Some(StringLiteral(to_string(self)))
      [] dbtype.k = "ByteDynamic" ->
            LET written(r) == IF r.k = "Ok" THEN Some(Bytes(r.v))
                              ELSE IF r.k = "Err" THEN None ELSE r
            IN  written(to_bytes(self, get_dbtype(self)))
      [] OTHER ->
    CASE self.t = "Bytes" ->
            LET read(r) == IF r.k = "Ok" THEN Some(r.v)
                           ELSE IF r.k = "Err" THEN None ELSE r
            IN  read(from_bytes(dbtype, self.v))
      [] self.t = "Float" /\ dbtype.k = "Integer" ->
            IF dbtype.signed THEN Some(SignedInteger(TruncFloat(self.v)))
            ELSE Some(UnsignedInteger(IF self.v[1] < 0 THEN 0 ELSE TruncFloat(self.v)))
      [] self.t = "UnsignedInteger" /\ dbtype.k = "F64" -> Some(Float(self.v[1], 1))
      [] self.t = "SignedInteger" /\ dbtype.k = "F64" -> Some(Float(self.v[1], 1))
      [] self.t = "UnsignedInteger" /\ dbtype.k = "Integer" /\ dbtype.signed ->
            Some(SignedInteger(self.v[1]))
      [] self.t = "SignedInteger" /\ dbtype.k = "Integer" /\ ~dbtype.signed ->
            Some(UnsignedInteger(self.v[1]))
      [] OTHER -> None

\* The arms of to_bytes' match on the cast value.
to_bytes_arms(c, dbtype) ==
    IF c.k = "None" THEN Err
    ELSE IF c.k = "Panic" THEN Panic
    ELSE CASE c.v.t = "Null" /\ dbtype.k = "Null" -> Err
           [] c.v.t = "Bytes" /\ dbtype.k = "ByteDynamic" -> Ok(c.v.v)
           [] c.v.t = "StringLiteral" /\ dbtype.k = "String" -> Ok(c.v.v \o <<0>>)
           [] c.v.t = "SignedInteger" /\ dbtype.k = "Integer" /\ dbtype.signed ->
                write_sdbinteger(c.v.v[1], dbtype.bytes)
           [] c.v.t = "UnsignedInteger" /\ dbtype.k = "Integer" /\ ~dbtype.signed ->
                write_udbinteger(c.v.v[1], dbtype.bytes)
           [] c.v.t = "Float" /\ dbtype.k = "F64" -> Ok(write_dbfloat(c.v.v))
           [] OTHER -> Err

to_bytes(self, dbtype) == to_bytes_arms(cast(self, dbtype), dbtype)

\* -1 / 0 / +1 from the two strict comparisons.
Ord3(lt, gt) == IF lt THEN -1 ELSE IF gt THEN 1 ELSE 0

FloatLess(l, r) == l[1] * r[2] < r[1] * l[2]

\* The arms of compare's match on self and the cast right operand.
compare_arms(self, c) ==
    IF c.k = "None" THEN None
    ELSE IF c.k = "Panic" THEN Panic
    ELSE CASE self.t = "Null" \/ c.v.t = "Null" -> None
           [] self.t = "UnsignedInteger" /\ c.v.t = "UnsignedInteger" ->
                Some(Ord3(ULess(self.v[1], c.v.v[1]), ULess(c.v.v[1], self.v[1])))
           [] self.t = "SignedInteger" /\ c.v.t = "SignedInteger" ->
                Some(Ord3(self.v[1] < c.v.v[1], self.v[1] > c.v.v[1]))
           [] self.t = "Float" /\ c.v.t = "Float" ->
                Some(Ord3(FloatLess(self.v, c.v.v), FloatLess(c.v.v, self.v)))
           [] self.t = "Bytes" /\ c.v.t = "Bytes" ->
                Some(Ord3(LexLess(self.v, c.v.v), LexLess(c.v.v, self.v)))
           [] self.t = "StringLiteral" /\ c.v.t = "StringLiteral" ->
                Some(Ord3(LexLess(self.v, c.v.v), LexLess(c.v.v, self.v)))
           [] OTHER -> Panic

compare(self, rhs) == compare_arms(self, cast(rhs, get_dbtype(self)))

RECURSIVE concat(_, _)
concat(self, rhs) ==
    IF self.t = "StringLiteral" /\ rhs.t = "StringLiteral"
    THEN StringLiteral(self.v \o rhs.v)
    ELSE IF self.t = "StringLiteral"
    THEN LET joined(c) == IF c.k = "Some" THEN concat(self, c.v) ELSE self
         IN  joined(cast(rhs, DbString))
    ELSE self

(***************************************************************************)
(* trait ColumnValueOpsExt (columnvalueops.rs:40-110).                     *)
(***************************************************************************)
null == from_3vl(0)

\* from_3vl(match self.compare(rhs) { None => 0, <hit> => 1, Some(_) => -1 })
Compare3vl(c, hit) ==
    IF c.k = "Panic" THEN Panic
    ELSE from_3vl(IF c.k = "None" THEN 0 ELSE IF c.v \in hit THEN 1 ELSE -1)

equals(self, rhs) == Compare3vl(compare(self, rhs), {0})

not_equals(self, rhs) ==
    LET coded(c) ==
            IF c.k = "Panic" THEN Panic
            ELSE from_3vl(IF c.k = "None" THEN 0 ELSE IF c.v = 0 THEN -1 ELSE 1)
    IN  coded(compare(self, rhs))

less_than(self, rhs) == Compare3vl(compare(self, rhs), {-1})

greater_than(self, rhs) == Compare3vl(compare(self, rhs), {1})

less_than_or_equal(self, rhs) == Compare3vl(compare(self, rhs), {-1, 0})

greater_than_or_equal(self, rhs) == Compare3vl(compare(self, rhs), {0, 1})

is_null(self) == to_3vl(self) = 0

tests_true(self) == to_3vl(self) = 1

not(self) == from_3vl(-to_3vl(self))

\* and() with the comparison reversed, so that it keeps the larger code.
and_keeps_larger(self, rhs) ==
    LET l == to_3vl(self)
        r == to_3vl(rhs)
    IN  from_3vl(IF l > r THEN l ELSE r)

and(self, rhs) ==
    LET l == to_3vl(self)
        r == to_3vl(rhs)
    IN  from_3vl(IF l < r THEN l ELSE r)

or(self, rhs) ==
    LET l == to_3vl(self)
        r == to_3vl(rhs)
    IN  from_3vl(IF l > r THEN l ELSE r)

(***************************************************************************)
(* Identifier (identifier.rs).  A string is its sequence of bytes.         *)
(***************************************************************************)
to_ascii_lowercase(c) == IF c \in 65..90 THEN c + 32 ELSE c

is_valid(value) ==
    /\ Len(value) > 0
    /\ ~(value[1] \in 48..57 \/ value[1] = 32)
    /\ \A i \in 1..Len(value) :
          \/ value[i] \in 97..122
          \/ value[i] \in 65..90
          \/ value[i] \in 48..57
          \/ value[i] = 95
          \/ value[i] = 32

\* A normalization that keeps the letters as they are.
normalize_without_folding(value) ==
    IF is_valid(value) THEN Some(value) ELSE None

normalize(value) ==
    IF is_valid(value)
    THEN Some([i \in 1..Len(value) |-> to_ascii_lowercase(value[i])])
    ELSE None

Identifier_new(value) == normalize(value)

\* The names the statements and the code use, as byte strings.
Str ==
    [l |-> <<108>>,
     r |-> <<114>>,
     m |-> <<109>>,
     x |-> <<120>>,
     z |-> <<122>>,
     X |-> <<88>>,
     int |-> <<105, 110, 116>>,
     integer |-> <<105, 110, 116, 101, 103, 101, 114>>,
     byte |-> <<98, 121, 116, 101>>,
     f64 |-> <<102, 54, 52>>,
     double |-> <<100, 111, 117, 98, 108, 101>>,
     string |-> <<115, 116, 114, 105, 110, 103>>,
     varchar |-> <<118, 97, 114, 99, 104, 97, 114>>,
     count |-> <<99, 111, 117, 110, 116>>,
     avg |-> <<97, 118, 103>>,
     sum |-> <<115, 117, 109>>,
     min |-> <<109, 105, 110>>,
     max |-> <<109, 97, 120>>]

(***************************************************************************)
(* DbType (types/mod.rs).                                                  *)
(***************************************************************************)
\* str::parse for an unsigned integer below `limit`: decimal digits only.
RECURSIVE ParseDigits(_, _, _)
ParseDigits(s, acc, limit) ==
    IF s = <<>> THEN Some(acc)
    ELSE IF Head(s) \notin 48..57 THEN None
    ELSE IF acc * 10 + (Head(s) - 48) >= limit THEN None
    ELSE ParseDigits(Tail(s), acc * 10 + (Head(s) - 48), limit)

ParseUnsigned(s, limit) ==
    IF s = <<>> THEN None
    ELSE IF Head(s) = 43 /\ Len(s) > 1 THEN ParseDigits(Tail(s), 0, limit)
    ELSE ParseDigits(s, 0, limit)

from_identifier(ident, array_size) ==
    IF array_size.k = "Some"
    THEN IF ident # Str.byte THEN None
         ELSE IF array_size.v.k = "None" THEN Some(ByteDynamic)
         ELSE Some(ByteFixed(array_size.v.v))
    ELSE IF ident = Str.byte THEN Some(Integer(FALSE, 1))
    ELSE IF ident \in {Str.f64, Str.double} THEN Some(F64)
    ELSE IF ident \in {Str.string, Str.varchar} THEN Some(DbString)
    ELSE IF ident \in {Str.int, Str.integer} THEN Some(Integer(TRUE, 4))
    ELSE IF Len(ident) < 2 THEN None
    ELSE LET bits(b) ==
                IF b.k = "None" THEN None
                ELSE IF b.v < 8 \/ b.v > 64 \/ b.v % 8 # 0 THEN None
                ELSE IF ident[1] = 117 THEN Some(Integer(FALSE, b.v \div 8))
                ELSE IF ident[1] = 105 THEN Some(Integer(TRUE, b.v \div 8))
                ELSE None
         IN  bits(ParseUnsigned(Tail(ident), 256))

get_default(self) ==
    CASE self.k = "Null" -> <<>>
      [] self.k = "ByteDynamic" -> <<>>
      [] self.k = "ByteFixed" -> Repeat(0, self.n)
      [] self.k = "Integer" /\ ~self.signed -> Repeat(0, self.bytes)
      [] self.k = "Integer" /\ self.signed -> <<128>> \o Repeat(0, self.bytes - 1)
      [] self.k = "F64" -> <<128, 0, 0, 0, 0, 0, 0, 0>>
      [] self.k = "String" -> <<0>>

is_valid_length(self, length) ==
    CASE self.k = "Null" -> length = 0
      [] self.k = "ByteDynamic" -> TRUE
      [] self.k = "ByteFixed" -> length = self.n
      [] self.k = "Integer" -> length = self.bytes
      [] self.k = "F64" -> length = 8
      [] self.k = "String" -> TRUE

get_fixed_length(self) ==
    CASE self.k = "Null" -> Some(0)
      [] self.k = "ByteDynamic" -> None
      [] self.k = "ByteFixed" -> Some(self.n)
      [] self.k = "Integer" -> Some(self.bytes)
      [] self.k = "F64" -> Some(8)
      [] self.k = "String" -> None

is_variable_length(self) == get_fixed_length(self).k = "None"

(***************************************************************************)
(* Table (tempdb/table.rs): name, columns, next_rowid and the ordered set  *)
(* of row keys.                                                            *)
(***************************************************************************)
Column(offset, name, dbtype, nullable) ==
    [offset |-> offset, name |-> name, dbtype |-> dbtype, nullable |-> nullable]

Table(name, columns) ==
    [name |-> name, columns |-> columns, next_rowid |-> 1, rowid_index |-> {}]

get_column_count(table) == Len(table.columns)

find_column_by_name(table, name) ==
    LET hits == {i \in 1..Len(table.columns) : table.columns[i].name = name}
    IN  IF hits = {} THEN None
        ELSE Some(table.columns[CHOOSE i \in hits : \A j \in hits : i <= j])

get_column_names(table) == [i \in 1..Len(table.columns) |-> table.columns[i].name]

\* The loop of insert_row over the columns zipped with their data; `key` and
\* `lengths` are the vectors built so far.
RECURSIVE insert_row_columns(_, _, _, _, _)
insert_row_columns(columns, column_data, i, key, lengths) ==
    IF i > Len(columns) THEN Ok(key \o lengths)
    ELSE LET column == columns[i]
             data == column_data[i].data
             flag == column_data[i].is_null
             len == Len(data)
         IN  IF flag = Some(TRUE)
             THEN IF len # 0 THEN Panic
                  ELSE insert_row_columns(columns, column_data, i + 1, key \o <<1>>, lengths)
             ELSE IF ~is_valid_length(column.dbtype, len) THEN Err
             ELSE IF column.nullable # (flag.k = "Some") THEN Panic
             ELSE insert_row_columns(columns, column_data, i + 1,
                      key \o (IF flag.k = "Some" THEN <<0>> ELSE <<>>) \o data,
                      lengths \o (IF is_variable_length(column.dbtype)
                                  THEN write_udbinteger(len, 8).v ELSE <<>>))

\* An insert that leaves next_rowid as it is.
insert_row_same_rowid(self, column_data) ==
    IF Len(self.columns) # Len(column_data) THEN Panic
    ELSE LET done(key) ==
                IF key.k # "Ok" THEN key
                ELSE Ok([self EXCEPT !.rowid_index = @ \cup {key.v}])
         IN  done(insert_row_columns(self.columns, column_data, 1,
                                     write_udbinteger(self.next_rowid, 8).v, <<>>))

\* An insert that takes two rowids.
insert_row_two_rowids(self, column_data) ==
    IF Len(self.columns) # Len(column_data) THEN Panic
    ELSE LET done(key) ==
                IF key.k # "Ok" THEN key
                ELSE Ok([self EXCEPT !.rowid_index = @ \cup {key.v},
                                     !.next_rowid = @ + 2])
         IN  done(insert_row_columns(self.columns, column_data, 1,
                                     write_udbinteger(self.next_rowid, 8).v, <<>>))

\* Ok(the table after the insert), Err (ValidationError) or Panic.
insert_row(self, column_data) ==
    IF Len(self.columns) # Len(column_data) THEN Panic
    ELSE LET done(key) ==
                IF key.k # "Ok" THEN key
                ELSE Ok([self EXCEPT !.rowid_index = @ \cup {key.v},
                                     !.next_rowid = @ + 1])
         IN  done(insert_row_columns(self.columns, column_data, 1,
                                     write_udbinteger(self.next_rowid, 8).v, <<>>))

(***************************************************************************)
(* ScanGroup (tempdb/mod.rs): the rows of a table, decoded from the keys   *)
(* in the order of the BTreeSet.                                           *)
(***************************************************************************)
RECURSIVE SortedKeys(_)
SortedKeys(keys) ==
    IF keys = {} THEN <<>>
    ELSE LET first == CHOOSE k \in keys : \A o \in keys : o = k \/ LexLess(k, o)
         IN  <<first>> \o SortedKeys(keys \ {first})

\* raw_key[from..to] of Rust (0-based, end exclusive); Panic out of range.
Slice(raw_key, from, to) ==
    IF from > to \/ to > Len(raw_key) \/ from < 0 THEN Panic
    ELSE Ok(SubSeq(raw_key, from + 1, to))

\* The closure of ScanGroup::iter over the columns: key_offset and
\* variable_length_offset are its two running counters.
RECURSIVE decode_columns(_, _, _, _, _, _)
decode_columns(columns, raw_key, i, key_offset, variable_length_offset, row) ==
    IF i > Len(columns) THEN Ok(row)
    ELSE IF columns[i].nullable /\ key_offset >= Len(raw_key) THEN Panic
    ELSE LET column == columns[i]
             flag == column.nullable /\ raw_key[key_offset + 1] # 0
             off == IF column.nullable THEN key_offset + 1 ELSE key_offset
             variable_column_count ==
                Cardinality({c \in 1..Len(columns) : is_variable_length(columns[c].dbtype)})
             fixed == get_fixed_length(column.dbtype)
             lo == Len(raw_key) - variable_column_count * 8 + variable_length_offset * 8
             size == IF fixed.k = "Some" THEN fixed.v
                     ELSE read_udbinteger(SubSeq(raw_key, lo + 1, lo + 8)).v
             value(bytes) ==
                IF bytes.k = "Panic" THEN Panic
                ELSE LET got(v) ==
                            IF v.k # "Ok" THEN Panic
                            ELSE decode_columns(columns, raw_key, i + 1, off + size,
                                    IF fixed.k = "Some" THEN variable_length_offset
                                    ELSE variable_length_offset + 1,
                                    Append(row, v.v))
                     IN  got(from_bytes(column.dbtype, bytes.v))
         IN  IF flag
             THEN decode_columns(columns, raw_key, i + 1, off, variable_length_offset,
                                 Append(row, null))
             ELSE value(Slice(raw_key, off, off + size))

decode_row(table, raw_key) ==
    LET variable_column_count ==
            Cardinality({c \in 1..Len(table.columns) :
                            is_variable_length(table.columns[c].dbtype)})
    IN  IF Len(raw_key) < 8 \/ Len(raw_key) < variable_column_count * 8 THEN Panic
        ELSE decode_columns(table.columns, raw_key, 1, 8, 0, <<>>)

\* Ok(the rows in key order) or Panic.
RECURSIVE decode_keys(_, _, _)
decode_keys(table, keys, rows) ==
    IF keys = <<>> THEN Ok(rows)
    ELSE LET next(row) ==
                IF row.k # "Ok" THEN Panic
                ELSE decode_keys(table, Tail(keys), Append(rows, row.v))
         IN  next(decode_row(table, Head(keys)))

scan_table(table) == decode_keys(table, SortedKeys(table.rowid_index), <<>>)

(***************************************************************************)
(* TempDb: the vector of tables (tempdb/mod.rs).                           *)
(***************************************************************************)
find_table_by_name(db, name) ==
    LET hits == {i \in 1..Len(db) : db[i].name = name}
    IN  IF hits = {} THEN None
        ELSE Some(db[CHOOSE i \in hits : \A j \in hits : i <= j])

add_table(db, table) ==
    IF \E i \in 1..Len(db) : db[i].name = table.name THEN Err
    ELSE Ok(Append(db, table))

\* The columns of CREATE TABLE, in order: Ok(columns), Err or Panic.
RECURSIVE create_table_columns(_, _, _)
create_table_columns(ast_columns, i, columns) ==
    IF i > Len(ast_columns) THEN Ok(columns)
    ELSE LET column == ast_columns[i]
             name == Identifier_new(column.column_name)
             type_name == Identifier_new(column.type_name)
             size == IF column.type_array_size.k = "Some"
                        /\ column.type_array_size.v.k = "Some"
                     THEN ParseUnsigned(column.type_array_size.v.v, 2147483647)
                     ELSE None
             type_array_size ==
                IF column.type_array_size.k = "Some" /\ column.type_array_size.v.k = "Some"
                THEN Some(size) ELSE column.type_array_size
             nullable == \E c \in 1..Len(column.constraints) :
                            column.constraints[c] = "Nullable"
             typed(dbtype) ==
                IF dbtype.k = "None" THEN Err
                ELSE create_table_columns(ast_columns, i + 1,
                        Append(columns, Column(i - 1, name.v, dbtype.v, nullable)))
         IN  IF name.k = "None" \/ type_name.k = "None" THEN Panic
             ELSE IF column.type_array_size.k = "Some"
                     /\ column.type_array_size.v.k = "Some" /\ size.k = "None" THEN Err
             ELSE typed(from_identifier(type_name.v, type_array_size))

\* [db |-> the tables afterwards, res |-> Created, Err or Panic]
create_table(db, create_stmt) ==
    IF create_stmt.table.database_name.k = "Some" THEN [db |-> db, res |-> Panic]
    ELSE IF Identifier_new(create_stmt.table.table_name).k = "None"
    THEN [db |-> db, res |-> Panic]
    ELSE LET added(r) == IF r.k = "Ok" THEN [db |-> r.v, res |-> [k |-> "Created"]]
                         ELSE [db |-> db, res |-> Err]
             cols(c) ==
                IF c.k # "Ok" THEN [db |-> db, res |-> c]
                ELSE added(add_table(db,
                        Table(Identifier_new(create_stmt.table.table_name).v, c.v)))
         IN  cols(create_table_columns(create_stmt.columns, 1, <<>>))

(***************************************************************************)
(* The syntax tree the compiler consumes (sqlsyntax/ast.rs, with the       *)
(* Expression variants queryplan/mod.rs matches on).                       *)
(***************************************************************************)
AstIdent(s) == [k |-> "Ident", s |-> s]
AstIdentMember(s1, s2) == [k |-> "IdentMember", s1 |-> s1, s2 |-> s2]
AstStringLiteral(s) == [k |-> "StringLiteral", s |-> s]
AstNumber(s) == [k |-> "Number", s |-> s]
AstNull == [k |-> "Null"]
AstUnaryOp(op, expr) == [k |-> "UnaryOp", op |-> op, expr |-> expr]
AstBinaryOp(op, lhs, rhs) == [k |-> "BinaryOp", op |-> op, lhs |-> lhs, rhs |-> rhs]
AstFunctionCall(name, arguments) ==
    [k |-> "FunctionCall", name |-> name, arguments |-> arguments]
AstFunctionCallAggregateAll(name) == [k |-> "FunctionCallAggregateAll", name |-> name]
AstSubquery(subquery) == [k |-> "Subquery", subquery |-> subquery]

AstTable(table_name, alias) ==
    [k |-> "Table", table |-> [database_name |-> None, table_name |-> table_name],
     alias |-> alias]
AstFromSubquery(subquery, alias) ==
    [k |-> "Subquery", subquery |-> subquery, alias |-> alias]
AllColumns == [k |-> "AllColumns"]
SelectExpr(expr, alias) == [k |-> "Expr", expr |-> expr, alias |-> alias]
Cross(v) == [k |-> "Cross", v |-> v]
Join(table, joins) == [k |-> "Join", table |-> table, joins |-> joins]
AstJoin(operator, table, on) == [operator |-> operator, table |-> table, on |-> on]

SelectStatement(result_columns, from, where_expr, group_by, having) ==
    [result_columns |-> result_columns, from |-> from, where_expr |-> where_expr,
     group_by |-> group_by, having |-> having, order_by |-> <<>>]

(***************************************************************************)
(* SExpression (queryplan/sexpression.rs; LeftJoin as queryplan/mod.rs     *)
(* builds it).  A table reference is the table's name.                     *)
(***************************************************************************)
Scan(table, source_id, yield_fn) ==
    [k |-> "Scan", table |-> table, source_id |-> source_id, yield_fn |-> yield_fn]
Map(source_id, yield_in_fn, yield_out_fn) ==
    [k |-> "Map", source_id |-> source_id, yield_in_fn |-> yield_in_fn,
     yield_out_fn |-> yield_out_fn]
TempGroupBy(source_id, yield_in_fn, group_by_values, yield_out_fn) ==
    [k |-> "TempGroupBy", source_id |-> source_id, yield_in_fn |-> yield_in_fn,
     group_by_values |-> group_by_values, yield_out_fn |-> yield_out_fn]
Yield(fields) == [k |-> "Yield", fields |-> fields]
ColumnField(source_id, column_offset) ==
    [k |-> "ColumnField", source_id |-> source_id, column_offset |-> column_offset]
IfChain(predicate, yield_fn) == [predicate |-> predicate, yield_fn |-> yield_fn]
If(chains, else_) == [k |-> "If", chains |-> chains, else_ |-> else_]
UnaryOp(op, expr) == [k |-> "UnaryOp", op |-> op, expr |-> expr]
BinaryOp(op, lhs, rhs) == [k |-> "BinaryOp", op |-> op, lhs |-> lhs, rhs |-> rhs]
AggregateOp(op, source_id, value) ==
    [k |-> "AggregateOp", op |-> op, source_id |-> source_id, value |-> value]
CountAll(source_id) == [k |-> "CountAll", source_id |-> source_id]
Value(v) == [k |-> "Value", v |-> v]
LeftJoin(source_id, yield_in_fn, predicate, yield_out_fn, right_rows_if_none) ==
    [k |-> "LeftJoin", source_id |-> source_id, yield_in_fn |-> yield_in_fn,
     predicate |-> predicate, yield_out_fn |-> yield_out_fn,
     right_rows_if_none |-> right_rows_if_none]

(***************************************************************************)
(* Literals (types/variant.rs).  The statements write numbers as decimal   *)
(* digits with an optional minus sign; other spellings are not drawn.      *)
(***************************************************************************)
from_string_literal(s) == Ok(StringLiteral(s))

from_number_literal(s) ==
    LET unsigned(u) ==
            IF u.k = "Some" THEN Ok(UnsignedInteger(u.v))
            ELSE LET signed(n) == IF n.k = "Some" THEN Ok(SignedInteger(-n.v)) ELSE Err
                 IN  IF s # <<>> /\ Head(s) = 45
                     THEN signed(ParseDigits(Tail(s), 0, 2147483647))
                     ELSE Err
    IN  unsigned(ParseUnsigned(s, 2147483647))

(***************************************************************************)
(* SourceScope (queryplan/source.rs): a frame of FROM sources and its      *)
(* parent frame.                                                           *)
(***************************************************************************)
SourceScope(parent, source_tables, table_aliases) ==
    [parent |-> parent, tables |-> source_tables, table_aliases |-> table_aliases]

TableOrSubquery(source_id, out_column_names) ==
    [source_id |-> source_id, out_column_names |-> out_column_names]

\* ColumnNames::get_column_offsets: every (0-based) offset carrying the name.
get_column_offsets(column_names, name) ==
    {i - 1 : i \in {j \in 1..Len(column_names) : column_names[j] = name}}

\* The candidates of one frame among the tables `picked` (indices).
FrameCandidates(self, picked, column_name) ==
    UNION {{<<self.tables[i].source_id, o>> :
                o \in get_column_offsets(self.tables[i].out_column_names, column_name)} :
           i \in picked}

\* One(v) when the frame's candidates plus the parent's answer are exactly
\* one pair; otherwise no pair: None for no candidate, Ambiguous for several.
Classify(own, inherited) ==
    IF Cardinality(own) + (IF inherited.k = "One" THEN 1 ELSE 0) = 1
    THEN [k |-> "One", v |-> IF own # {} THEN CHOOSE c \in own : TRUE ELSE inherited.v]
    ELSE IF own = {} /\ inherited.k # "One" THEN [k |-> "None"]
    ELSE [k |-> "Ambiguous"]

RECURSIVE get_column_offset(_, _)
get_column_offset(self, column_name) ==
    Classify(FrameCandidates(self, 1..Len(self.tables), column_name),
             IF self.parent.k = "Some"
             THEN get_column_offset(self.parent.v, column_name)
             ELSE [k |-> "None"])

RECURSIVE get_table_column_offset(_, _, _)
get_table_column_offset(self, table_name, column_name) ==
    Classify(FrameCandidates(self,
                {i \in 1..Len(self.table_aliases) : self.table_aliases[i] = table_name},
                column_name),
             IF self.parent.k = "Some"
             THEN get_table_column_offset(self.parent.v, table_name, column_name)
             ELSE [k |-> "None"])

(***************************************************************************)
(* QueryCompiler (queryplan/mod.rs).  `self` carries query_id, the         *)
(* database and the state shared by the compilers of one compile_select:   *)
(* the two counters, the two maps and the GroupsInfo in use.  A step       *)
(* returns Done(self', v), a compile error or Panic.                       *)
(***************************************************************************)
Done(self, v) == [k |-> "Ok", self |-> self, v |-> v]
CompileError(e) == [k |-> "Err", e |-> e]

new_identifier(value) ==
    IF Identifier_new(value).k = "Some" THEN Ok(Identifier_new(value).v)
    ELSE CompileError("BadIdentifier")

add_query_id(innermost_nonaggregated_query, query_id) ==
    IF innermost_nonaggregated_query.k = "None" THEN Some(query_id)
    ELSE IF query_id > innermost_nonaggregated_query.v THEN Some(query_id)
    ELSE innermost_nonaggregated_query

new_source_id(self) ==
    IF self.next_source_id \in DOMAIN self.source_id_to_query_id THEN Panic
    ELSE Done([self EXCEPT
                 !.source_id_to_query_id = @ @@ (self.next_source_id :> self.query_id),
                 !.next_source_id = @ + 1],
              self.next_source_id)

\* A query id given out without counting it.
new_query_id_not_counted(self) ==
    Done(self, self.next_query_id)

new_query_id(self) ==
    Done([self EXCEPT !.next_query_id = @ + 1], self.next_query_id)

\* An allocation that takes a fresh id at every request.
new_aggregated_source_id_fresh(self, aggregated_query_id) ==
    Done([self EXCEPT
            !.source_id_to_query_id = @ @@ (self.next_source_id :> aggregated_query_id),
            !.query_to_aggregated_source_id =
                    (aggregated_query_id :> self.next_source_id) @@ @,
            !.next_source_id = @ + 1],
         self.next_source_id)

new_aggregated_source_id(self, aggregated_query_id) ==
    IF aggregated_query_id \in DOMAIN self.query_to_aggregated_source_id
    THEN Done(self, self.query_to_aggregated_source_id[aggregated_query_id])
    ELSE IF self.next_source_id \in DOMAIN self.source_id_to_query_id THEN Panic
    ELSE Done([self EXCEPT
                 !.source_id_to_query_id = @ @@ (self.next_source_id :> aggregated_query_id),
                 !.query_to_aggregated_source_id =
                        @ @@ (aggregated_query_id :> self.next_source_id),
                 !.next_source_id = @ + 1],
              self.next_source_id)

get_query_id_from_source_id(self, source_id) ==
    IF source_id \in DOMAIN self.source_id_to_query_id
    THEN Ok(self.source_id_to_query_id[source_id]) ELSE Panic

\* FromWhereTableOrSubquery and its methods.
into_sexpr(self, nested_expr) ==
    IF self.k = "Subquery" THEN Map(self.source_id, self.expr, nested_expr)
    ELSE Scan(self.table, self.source_id, nested_expr)

yield_all_columns(self, column_count) ==
    into_sexpr(self, Yield([i \in 1..column_count |-> ColumnField(self.source_id, i - 1)]))

\* A right_rows_if_none that holds a single Null whatever the right-hand
\* source yields.
right_rows_if_none_single(column_count) == <<null>>

\* `(0..column_count).map(|_| null()).collect()` of from_where_join.
right_rows_if_none(column_count) == [i \in 1..column_count |-> null]

\* FromWhere::evaluate.
core_expr(where_expr, inner_expr) ==
    IF where_expr.k = "Some"
    THEN If(<<IfChain(where_expr.v, inner_expr)>>, None)
    ELSE inner_expr

RECURSIVE FoldTables(_, _, _)
\* A fold that nests the sources the other way around: the first source of
\* FROM innermost.
FoldTables_first_innermost(fromwhere_tables, i, nested_expr) ==
    IF i = 0 THEN nested_expr
    ELSE FoldTables(fromwhere_tables, i - 1,
                    into_sexpr(fromwhere_tables[Len(fromwhere_tables) - i + 1], nested_expr))

FoldTables(fromwhere_tables, i, nested_expr) ==
    IF i = 0 THEN nested_expr
    ELSE FoldTables(fromwhere_tables, i - 1, into_sexpr(fromwhere_tables[i], nested_expr))

RECURSIVE FoldJoins(_, _, _)
FoldJoins(joins, i, nested_expr) ==
    IF i = 0 THEN nested_expr
    ELSE FoldJoins(joins, i - 1,
            IF joins[i].k = "Inner"
            THEN into_sexpr(joins[i].table,
                            If(<<IfChain(joins[i].on, nested_expr)>>, None))
            ELSE LeftJoin(joins[i].source_id, joins[i].table, joins[i].on,
                          nested_expr, joins[i].right_rows_if_none))

evaluate(self, inner_expr) ==
    IF self.k = "Cross"
    THEN FoldTables(self.tables, Len(self.tables), core_expr(self.where_expr, inner_expr))
    ELSE into_sexpr(self.outer_table,
                    FoldJoins(self.joins, Len(self.joins),
                              core_expr(self.where_expr, inner_expr)))

\* A resolved column: the watermark of groups_info takes the query of the
\* column's source, and the ColumnField is the result.
resolved_column(self, v) ==
    LET noted(query_id) ==
            IF query_id.k # "Ok" THEN Panic
            ELSE Done([self EXCEPT !.groups_info = add_query_id(@, query_id.v)],
                      ColumnField(v[1], v[2]))
    IN  noted(get_query_id_from_source_id(self, v[1]))

lookup_result(self, r) ==
    IF r.k = "None" THEN CompileError("ColumnDoesNotExist")
    ELSE IF r.k = "Ambiguous" THEN CompileError("AmbiguousColumnName")
    ELSE resolved_column(self, r.v)

\* The ColumnFields of every column of every table of a scope, in order.
RECURSIVE every_column(_, _)
every_column(source_tables, i) ==
    IF i > Len(source_tables) THEN <<>>
    ELSE [c \in 1..Len(source_tables[i].out_column_names) |->
                ColumnField(source_tables[i].source_id, c - 1)]
         \o every_column(source_tables, i + 1)

RECURSIVE every_column_name(_, _)
every_column_name(source_tables, i) ==
    IF i > Len(source_tables) THEN <<>>
    ELSE source_tables[i].out_column_names \o every_column_name(source_tables, i + 1)

RECURSIVE ColumnsBefore(_, _)
ColumnsBefore(source_tables, i) ==
    IF i <= 1 THEN 0
    ELSE ColumnsBefore(source_tables, i - 1) + Len(source_tables[i - 1].out_column_names)

\* The HashMap<u32, Mapping> compile collects from the scope's tables.
Mapping(source_tables, source_id) ==
    [s \in {source_tables[i].source_id : i \in 1..Len(source_tables)} |->
        LET i == CHOOSE j \in 1..Len(source_tables) :
                    /\ source_tables[j].source_id = s
                    /\ \A o \in 1..Len(source_tables) :
                            source_tables[o].source_id = s => o <= j
        IN  [source_id |-> source_id, column_offset |-> ColumnsBefore(source_tables, i)]]

RECURSIVE remap_columns_in_sexpression(_, _)
iter_mut_expressions_in_expression(expr, mapping) ==
    CASE expr.k = "Scan" ->
            [expr EXCEPT !.yield_fn = remap_columns_in_sexpression(@, mapping)]
      [] expr.k = "Map" ->
            [expr EXCEPT !.yield_in_fn = remap_columns_in_sexpression(@, mapping),
                         !.yield_out_fn = remap_columns_in_sexpression(@, mapping)]
      [] expr.k = "TempGroupBy" ->
            [expr EXCEPT !.yield_in_fn = remap_columns_in_sexpression(@, mapping),
                         !.group_by_values =
                            [i \in 1..Len(@) |-> remap_columns_in_sexpression(@[i], mapping)],
                         !.yield_out_fn = remap_columns_in_sexpression(@, mapping)]
      [] expr.k = "Yield" ->
            [expr EXCEPT !.fields =
                            [i \in 1..Len(@) |-> remap_columns_in_sexpression(@[i], mapping)]]
      [] expr.k = "If" ->
            [expr EXCEPT !.chains =
                            [i \in 1..Len(@) |->
                                IfChain(remap_columns_in_sexpression(@[i].predicate, mapping),
                                        remap_columns_in_sexpression(@[i].yield_fn, mapping))],
                         !.else_ = IF @.k = "Some"
                                   THEN Some(remap_columns_in_sexpression(@.v, mapping))
                                   ELSE @]
      [] expr.k = "BinaryOp" ->
            [expr EXCEPT !.lhs = remap_columns_in_sexpression(@, mapping),
                         !.rhs = remap_columns_in_sexpression(@, mapping)]
      [] expr.k = "AggregateOp" ->
            [expr EXCEPT !.value = remap_columns_in_sexpression(@, mapping)]
      [] OTHER -> expr

remap_columns_in_sexpression(expr, mapping) ==
    IF expr.k = "ColumnField"
    THEN IF expr.source_id \in DOMAIN mapping
         THEN ColumnField(mapping[expr.source_id].source_id,
                          expr.column_offset + mapping[expr.source_id].column_offset)
         ELSE expr
    ELSE iter_mut_expressions_in_expression(expr, mapping)

\* The plan compile assembles once FROM/WHERE, GROUP BY/HAVING and the
\* select list are lowered.
assemble(self, new_scope, from_where, group_by_values, having_predicate, select_exprs) ==
    IF self.query_id \in DOMAIN self.query_to_aggregated_source_id
    THEN LET source_id == self.query_to_aggregated_source_id[self.query_id]
             mapping == Mapping(new_scope.tables, source_id)
             yield_out_fn ==
                IF having_predicate.k = "Some"
                THEN If(<<IfChain(having_predicate.v, Yield(select_exprs))>>, None)
                ELSE Yield(select_exprs)
         IN  TempGroupBy(source_id,
                 evaluate(from_where, Yield(every_column(new_scope.tables, 1))),
                 [i \in 1..Len(group_by_values) |->
                        remap_columns_in_sexpression(group_by_values[i], mapping)],
                 remap_columns_in_sexpression(yield_out_fn, mapping))
    ELSE evaluate(from_where, Yield(select_exprs))

RECURSIVE compile(_, _, _)
RECURSIVE from_where(_, _, _, _)
RECURSIVE ast_table_or_subquery_to(_, _, _)
RECURSIVE cross_tables(_, _, _, _)
RECURSIVE join_tables(_, _, _, _, _)
RECURSIVE select(_, _, _, _, _)
RECURSIVE expressions_to_sexpressions(_, _, _, _)
RECURSIVE ast_expression_to_sexpression(_, _, _)

\* The aggregate! macro of ast_expression_to_sexpression.
aggregate(self, op, arguments, scope) ==
    IF Len(arguments) # 1 THEN CompileError("AggregateFunctionRequiresOneArgument")
    ELSE LET bound(value, g) ==
                IF g.k = "None" \/ g.v > self.query_id
                THEN CompileError("AggregateFunctionHasNoQueryToAggregate")
                ELSE LET made(source_id) ==
                            IF source_id.k # "Ok" THEN source_id
                            ELSE Done(source_id.self,
                                      AggregateOp(op, source_id.v, value.v))
                     IN  made(new_aggregated_source_id(
                                [value.self EXCEPT !.groups_info = self.groups_info], g.v))
             lowered(value) ==
                IF value.k # "Ok" THEN value ELSE bound(value, value.self.groups_info)
         IN  lowered(ast_expression_to_sexpression(
                        [self EXCEPT !.groups_info = None], arguments[1], scope))

ast_expression_to_sexpression(self, ast, scope) ==
    CASE ast.k = "Ident" ->
            LET named(column_identifier) ==
                    IF column_identifier.k # "Ok" THEN column_identifier
                    ELSE lookup_result(self, get_column_offset(scope, column_identifier.v))
            IN  named(new_identifier(ast.s))
      [] ast.k = "IdentMember" ->
            LET named(table_identifier, column_identifier) ==
                    IF table_identifier.k # "Ok" THEN table_identifier
                    ELSE IF column_identifier.k # "Ok" THEN column_identifier
                    ELSE lookup_result(self,
                            get_table_column_offset(scope, table_identifier.v,
                                                    column_identifier.v))
            IN  named(new_identifier(ast.s1), new_identifier(ast.s2))
      [] ast.k = "UnaryOp" ->
            LET lowered(e) == IF e.k # "Ok" THEN e ELSE Done(e.self, UnaryOp(ast.op, e.v))
            IN  lowered(ast_expression_to_sexpression(self, ast.expr, scope))
      [] ast.k = "BinaryOp" ->
            LET left(l) ==
                    IF l.k # "Ok" THEN l
                    ELSE LET right(r) ==
                                IF r.k # "Ok" THEN r
                                ELSE Done(r.self, BinaryOp(ast.op, l.v, r.v))
                         IN  right(ast_expression_to_sexpression(l.self, ast.rhs, scope))
            IN  left(ast_expression_to_sexpression(self, ast.lhs, scope))
      [] ast.k = "StringLiteral" -> Done(self, Value(from_string_literal(ast.s).v))
      [] ast.k = "Number" ->
            LET parsed(value) ==
                    IF value.k = "Ok" THEN Done(self, Value(value.v))
                    ELSE CompileError("BadNumberLiteral")
            IN  parsed(from_number_literal(ast.s))
      [] ast.k = "Null" -> Done(self, Value(null))
      [] ast.k = "Subquery" ->
            LET planned(source_id, p) ==
                    IF p.k # "Ok" THEN p
                    ELSE Done([p.self EXCEPT !.query_id = self.query_id],
                              Map(source_id, p.v.expr, ColumnField(source_id, 0)))
                nested(source_id, query_id) ==
                    planned(source_id.v,
                            compile([query_id.self EXCEPT !.query_id = query_id.v],
                                    ast.subquery, scope))
                sourced(source_id) ==
                    IF source_id.k # "Ok" THEN source_id
                    ELSE nested(source_id, new_query_id(source_id.self))
            IN  sourced(new_source_id(self))
      [] ast.k = "FunctionCall" ->
            LET named(ident) ==
                    IF ident.k # "Ok" THEN ident
                    ELSE CASE ident.v = Str.count -> aggregate(self, "Count", ast.arguments, scope)
                           [] ident.v = Str.avg -> aggregate(self, "Avg", ast.arguments, scope)
                           [] ident.v = Str.sum -> aggregate(self, "Sum", ast.arguments, scope)
                           [] ident.v = Str.min -> aggregate(self, "Min", ast.arguments, scope)
                           [] ident.v = Str.max -> aggregate(self, "Max", ast.arguments, scope)
                           [] OTHER -> CompileError("UnknownFunctionName")
            IN  named(new_identifier(ast.name))
      [] ast.k = "FunctionCallAggregateAll" ->
            LET made(source_id) ==
                    IF source_id.k # "Ok" THEN source_id
                    ELSE Done(source_id.self, CountAll(source_id.v))
                named(ident) ==
                    IF ident.k # "Ok" THEN ident
                    ELSE IF ident.v = Str.count
                    THEN made(new_aggregated_source_id(self, self.query_id))
                    ELSE CompileError("AggregateAllMustBeCount")
            IN  named(new_identifier(ast.name))

\* `exprs.into_iter().map(|expr| self.ast_expression_to_sexpression(..)).collect()`
expressions_to_sexpressions(self, exprs, scope, lowered) ==
    IF exprs = <<>> THEN Done(self, lowered)
    ELSE LET next(e) ==
                IF e.k # "Ok" THEN e
                ELSE expressions_to_sexpressions(e.self, Tail(exprs), scope,
                                                 Append(lowered, e.v))
         IN  next(ast_expression_to_sexpression(self, Head(exprs), scope))

ast_table_or_subquery_to(self, ast_table_or_subquery, scope) ==
    IF ast_table_or_subquery.k = "Subquery"
    THEN LET sourced(p, alias_identifier, source_id) ==
                IF source_id.k # "Ok" THEN source_id
                ELSE Done(source_id.self,
                          [s |-> TableOrSubquery(source_id.v, p.v.out_column_names),
                           t |-> [k |-> "Subquery", source_id |-> source_id.v,
                                  expr |-> p.v.expr],
                           alias |-> alias_identifier.v])
             planned(p, alias_identifier) ==
                IF p.k # "Ok" THEN p
                ELSE IF alias_identifier.k # "Ok" THEN alias_identifier
                ELSE sourced(p, alias_identifier,
                             new_source_id([p.self EXCEPT !.query_id = self.query_id]))
             nested(query_id) ==
                planned(compile([query_id.self EXCEPT !.query_id = query_id.v],
                                ast_table_or_subquery.subquery, scope),
                        new_identifier(ast_table_or_subquery.alias))
         IN  nested(new_query_id(self))
    ELSE LET sourced(table, alias_identifier, source_id) ==
                IF source_id.k # "Ok" THEN source_id
                ELSE Done(source_id.self,
                          [s |-> TableOrSubquery(source_id.v, get_column_names(table)),
                           t |-> [k |-> "Table", source_id |-> source_id.v,
                                  table |-> table.name],
                           alias |-> alias_identifier.v])
             found(table_name_identifier, table) ==
                IF table.k = "None" THEN CompileError("TableDoesNotExist")
                ELSE LET aliased(alias_identifier) ==
                            IF alias_identifier.k # "Ok" THEN alias_identifier
                            ELSE sourced(table.v, alias_identifier, new_source_id(self))
                     IN  aliased(IF ast_table_or_subquery.alias.k = "Some"
                                 THEN new_identifier(ast_table_or_subquery.alias.v)
                                 ELSE table_name_identifier)
             named(table_name_identifier) ==
                IF table_name_identifier.k # "Ok" THEN table_name_identifier
                ELSE found(table_name_identifier,
                           find_table_by_name(self.db, table_name_identifier.v))
         IN  named(new_identifier(ast_table_or_subquery.table.table_name))

\* The map-and-collect of from_where_cross over the FROM list.
cross_tables(self, ast_cross_tables, scope, a) ==
    IF ast_cross_tables = <<>> THEN Done(self, a)
    ELSE LET next(t) ==
                IF t.k # "Ok" THEN t
                ELSE cross_tables(t.self, Tail(ast_cross_tables), scope, Append(a, t.v))
         IN  next(ast_table_or_subquery_to(self, Head(ast_cross_tables), scope))

\* The map-and-collect of from_where_join over the joins; new_scope grows.
join_tables(self, joins, scope, new_scope, j) ==
    IF joins = <<>> THEN Done(self, [new_scope |-> new_scope, joins |-> j])
    ELSE LET join == Head(joins)
             pushed(source_table, alias) ==
                [new_scope EXCEPT !.tables = Append(@, source_table),
                                  !.table_aliases = Append(@, alias)]
             inner(t) ==
                LET lowered(on) ==
                        IF on.k # "Ok" THEN on
                        ELSE join_tables(on.self, Tail(joins), scope,
                                pushed(t.v.s, t.v.alias),
                                Append(j, [k |-> "Inner", table |-> t.v.t, on |-> on.v]))
                IN  lowered(ast_expression_to_sexpression(t.self, join.on,
                                pushed(t.v.s, t.v.alias)))
             left(t, source_id) ==
                IF source_id.k # "Ok" THEN source_id
                ELSE LET left_join_source_table ==
                            TableOrSubquery(source_id.v, t.v.s.out_column_names)
                         column_count == Len(t.v.s.out_column_names)
                         lowered(on) ==
                            IF on.k # "Ok" THEN on
                            ELSE join_tables(on.self, Tail(joins), scope,
                                    pushed(left_join_source_table, t.v.alias),
                                    Append(j, [k |-> "Left", source_id |-> source_id.v,
                                               table |-> yield_all_columns(t.v.t, column_count),
                                               on |-> on.v,
                                               right_rows_if_none |->
                                                    right_rows_if_none(column_count)]))
                     IN  lowered(ast_expression_to_sexpression(source_id.self, join.on,
                                    pushed(left_join_source_table, t.v.alias)))
             next(t) ==
                IF t.k # "Ok" THEN t
                ELSE IF join.operator = "Inner" THEN inner(t)
                ELSE left(t, new_source_id(t.self))
         IN  next(ast_table_or_subquery_to(self, join.table, scope))

\* from_where with from_where_cross and from_where_join: Done(self', [scope, from_where]).
from_where(self, from, where_expr, scope) ==
    LET filtered(s, new_scope, fw) ==
            IF where_expr.k = "Some"
            THEN LET lowered(w) ==
                        IF w.k # "Ok" THEN w
                        ELSE Done(w.self, [scope |-> new_scope,
                                           from_where |-> [fw EXCEPT !.where_expr = Some(w.v)]])
                 IN  lowered(ast_expression_to_sexpression(s, where_expr.v, new_scope))
            ELSE Done(s, [scope |-> new_scope, from_where |-> fw])
    IN  IF from.k = "Cross"
        THEN LET collected(a) ==
                    IF a.k # "Ok" THEN a
                    ELSE filtered(a.self,
                            SourceScope(Some(scope),
                                        [i \in 1..Len(a.v) |-> a.v[i].s],
                                        [i \in 1..Len(a.v) |-> a.v[i].alias]),
                            [k |-> "Cross", tables |-> [i \in 1..Len(a.v) |-> a.v[i].t],
                             where_expr |-> None])
             IN  collected(cross_tables(self, from.v, scope, <<>>))
        ELSE LET joined(t, j) ==
                    IF j.k # "Ok" THEN j
                    ELSE filtered(j.self, j.v.new_scope,
                            [k |-> "Join", outer_table |-> t.v.t, joins |-> j.v.joins,
                             where_expr |-> None])
                 first(t) ==
                    IF t.k # "Ok" THEN t
                    ELSE joined(t, join_tables(t.self, from.joins, scope,
                                    SourceScope(Some(scope), <<t.v.s>>, <<t.v.alias>>), <<>>))
             IN  first(ast_table_or_subquery_to(self, from.table, scope))

\* The loop of select; `a` is the vector of (name, expression) pairs so far.
select(self, result_columns, scope, a, arbitrary_column_count) ==
    IF result_columns = <<>>
    THEN Done(self, [column_names |-> [i \in 1..Len(a) |-> a[i][1]],
                     select_exprs |-> [i \in 1..Len(a) |-> a[i][2]]])
    ELSE LET c == Head(result_columns)
             all == [i \in 1..Len(every_column(scope.tables, 1)) |->
                        <<every_column_name(scope.tables, 1)[i],
                          every_column(scope.tables, 1)[i]>>]
             arbitrary == c.k = "Expr" /\ c.alias.k = "None" /\ c.expr.k # "Ident"
             lowered(column_name, e) ==
                IF e.k # "Ok" THEN e
                ELSE select(e.self, Tail(result_columns), scope,
                            Append(a, <<column_name.v, e.v>>),
                            IF arbitrary THEN arbitrary_column_count + 1
                            ELSE arbitrary_column_count)
             named(column_name) ==
                IF column_name.k = "None" THEN Panic
                ELSE IF column_name.k # "Ok" /\ column_name.k # "Some" THEN column_name
                ELSE lowered(column_name, ast_expression_to_sexpression(self, c.expr, scope))
         IN  IF c.k = "AllColumns"
             THEN select([self EXCEPT !.groups_info = add_query_id(@, self.query_id)],
                         Tail(result_columns), scope, a \o all, arbitrary_column_count)
             ELSE named(IF c.alias.k = "Some" THEN new_identifier(c.alias.v)
                        ELSE IF c.expr.k = "Ident" THEN new_identifier(c.expr.s)
                        ELSE Identifier_new(<<95>> \o NatToStr(arbitrary_column_count)))

compile(self, stmt, outer_scope) ==
    IF stmt.order_by # <<>> THEN Panic
    ELSE LET selected(fw, g, sel) ==
                IF sel.k # "Ok" THEN sel
                ELSE Done(sel.self,
                          [expr |-> assemble(sel.self, fw.v.scope, fw.v.from_where,
                                             g.v.group_by_values, g.v.having_predicate,
                                             sel.v.select_exprs),
                           out_column_names |-> sel.v.column_names])
             grouped(fw, g) ==
                IF g.k # "Ok" THEN g
                ELSE selected(fw, g, select(g.self, stmt.result_columns, fw.v.scope, <<>>, 0))
             having(fw, vals) ==
                IF vals.k # "Ok" THEN vals
                ELSE IF stmt.having.k = "Some"
                THEN LET lowered(h) ==
                            IF h.k # "Ok" THEN h
                            ELSE Done(h.self, [group_by_values |-> vals.v,
                                               having_predicate |-> Some(h.v)])
                     IN  lowered(ast_expression_to_sexpression(vals.self, stmt.having.v,
                                                               fw.v.scope))
                ELSE Done(vals.self, [group_by_values |-> vals.v, having_predicate |-> None])
             keyed(fw, source_id) ==
                IF source_id.k # "Ok" THEN source_id
                ELSE having(fw, expressions_to_sexpressions(source_id.self, stmt.group_by,
                                                            fw.v.scope, <<>>))
             sourced(fw) ==
                IF fw.k # "Ok" THEN fw
                ELSE grouped(fw,
                        IF stmt.group_by # <<>>
                        THEN keyed(fw, new_aggregated_source_id(fw.self, fw.self.query_id))
                        ELSE Done(fw.self, [group_by_values |-> <<>>,
                                            having_predicate |-> None]))
         IN  sourced(from_where(self, stmt.from, stmt.where_expr, outer_scope))

\* The compiler compile_select and compile_ast_expression start from.
QueryCompiler(db) ==
    [query_id |-> 0, db |-> db, next_source_id |-> 0, next_query_id |-> 1,
     source_id_to_query_id |-> <<>>, query_to_aggregated_source_id |-> <<>>,
     groups_info |-> None]

compile_select(db, select_stmt) ==
    compile(QueryCompiler(db), select_stmt, SourceScope(None, <<>>, <<>>))

compile_ast_expression(db, expr) ==
    ast_expression_to_sexpression(QueryCompiler(db), expr, SourceScope(None, <<>>, <<>>))

(***************************************************************************)
(* The executor (queryplan/execute/mod.rs).  A Source chain is the         *)
(* sequence of its frames, the innermost last; None is the empty sequence. *)
(* execute returns its status with the rows it handed to result_cb, in     *)
(* order; the caller runs its callback over them, and the first callback   *)
(* that does not return Ok ends the execution with that status.            *)
(***************************************************************************)
Row(source_id, row) == [source_id |-> source_id, t |-> "Row", v |-> row]
Group(source_id, rows) == [source_id |-> source_id, t |-> "Group", v |-> rows]

ExecuteQueryPlan(storage, hasher) == [storage |-> storage, hasher |-> hasher]

Delivered(k, rows) == [k |-> k, rows |-> rows]

RECURSIVE find_row_from_source_id(_, _)
find_row_from_source_id(source, source_id) ==
    IF source = <<>> THEN None
    ELSE IF source[Len(source)].source_id = source_id
    THEN IF source[Len(source)].t = "Row" THEN Some(source[Len(source)].v) ELSE None
    ELSE find_row_from_source_id(SubSeq(source, 1, Len(source) - 1), source_id)

RECURSIVE find_group_from_source_id(_, _)
find_group_from_source_id(source, source_id) ==
    IF source = <<>> THEN None
    ELSE IF source[Len(source)].source_id = source_id
    THEN IF source[Len(source)].t = "Group" THEN Some(source[Len(source)].v) ELSE None
    ELSE find_group_from_source_id(SubSeq(source, 1, Len(source) - 1), source_id)

\* A bucket that takes each new row at its front.
insert_front(buckets, key, row) ==
    IF \E b \in 1..Len(buckets) : buckets[b].key = key
    THEN [b \in 1..Len(buckets) |->
            IF buckets[b].key = key
            THEN [buckets[b] EXCEPT !.rows = <<row>> \o @]
            ELSE buckets[b]]
    ELSE Append(buckets, [key |-> key, rows |-> <<row>>])

\* GroupBuckets::insert; the buckets are kept in the order of their first row.
insert(buckets, key, row) ==
    IF \E b \in 1..Len(buckets) : buckets[b].key = key
    THEN [b \in 1..Len(buckets) |->
            IF buckets[b].key = key
            THEN [buckets[b] EXCEPT !.rows = Append(@, row)]
            ELSE buckets[b]]
    ELSE Append(buckets, [key |-> key, rows |-> <<row>>])

\* The iteration order of the HashMap of buckets: any order, fixed by the
\* state of the hasher.
RECURSIVE into_iter(_, _)
into_iter(buckets, hasher) ==
    IF buckets = <<>> THEN <<>>
    ELSE LET first == (hasher % Len(buckets)) + 1
         IN  <<buckets[first]>>
             \o into_iter([b \in 1..(Len(buckets) - 1) |->
                                IF b < first THEN buckets[b] ELSE buckets[b + 1]],
                          hasher \div Len(buckets))

RECURSIVE execute(_, _, _)
RECURSIVE resolve_value(_, _, _)
RECURSIVE resolve_values(_, _, _, _)
RECURSIVE scan_rows(_, _, _, _, _)
RECURSIVE map_rows(_, _, _, _, _, _)
RECURSIVE fill_buckets(_, _, _, _, _)
RECURSIVE yield_groups(_, _, _, _, _)
RECURSIVE if_chains(_, _, _, _)
RECURSIVE left_join_rows(_, _, _, _, _, _)
RECURSIVE resolve_map(_, _, _)

\* `exprs.iter().map(|e| self.resolve_value(e, source)).collect()`
resolve_values(self, exprs, source, columns) ==
    IF exprs = <<>> THEN Ok(columns)
    ELSE LET next(c) ==
                IF c.k # "Ok" THEN c
                ELSE resolve_values(self, Tail(exprs), source, Append(columns, c.v))
         IN  next(resolve_value(self, Head(exprs), source))

\* The loop of the Scan arm over the rows of the table.
scan_rows(self, expr, group, source, delivered) ==
    IF group = <<>> THEN Delivered("Ok", delivered)
    ELSE LET next(r) ==
                IF r.k # "Ok" THEN Delivered(r.k, delivered \o r.rows)
                ELSE scan_rows(self, expr, Tail(group), source, delivered \o r.rows)
         IN  next(execute(self, expr.yield_fn,
                          Append(source, Row(expr.source_id, Head(group)))))

\* The callback of the Map arm over the rows yield_in_fn hands to it; `k` is
\* the status yield_in_fn ends with when every callback returns Ok.
map_rows(self, expr, rows, source, delivered, k) ==
    IF rows = <<>> THEN Delivered(k, delivered)
    ELSE LET next(r) ==
                IF r.k # "Ok" THEN Delivered(r.k, delivered \o r.rows)
                ELSE map_rows(self, expr, Tail(rows), source, delivered \o r.rows, k)
         IN  next(execute(self, expr.yield_out_fn,
                          Append(source, Row(expr.source_id, Head(rows)))))

\* The callback of the TempGroupBy arm: Ok(buckets), Err or Panic.
fill_buckets(self, expr, rows, source, group_buckets) ==
    IF rows = <<>> THEN Ok(group_buckets)
    ELSE LET next(key) ==
                IF key.k # "Ok" THEN key
                ELSE fill_buckets(self, expr, Tail(rows), source,
                                  insert(group_buckets, key.v, Head(rows)))
         IN  next(resolve_values(self, expr.group_by_values,
                                 Append(source, Row(expr.source_id, Head(rows))), <<>>))

\* The loop of the TempGroupBy arm over the filled buckets.
yield_groups(self, expr, groups, source, delivered) ==
    IF groups = <<>> THEN Delivered("Ok", delivered)
    ELSE LET next(r) ==
                IF r.k # "Ok" THEN Delivered(r.k, delivered \o r.rows)
                ELSE yield_groups(self, expr, Tail(groups), source, delivered \o r.rows)
         IN  next(execute(self, expr.yield_out_fn,
                          Append(source, Group(expr.source_id, Head(groups).rows))))

\* The If arm: the first chain whose predicate tests true runs.
if_chains(self, chains, else_, source) ==
    IF chains = <<>>
    THEN IF else_.k = "Some" THEN execute(self, else_.v, source)
         ELSE Delivered("Ok", <<>>)
    ELSE LET tested(pred_result) ==
                IF pred_result.k # "Ok" THEN Delivered(pred_result.k, <<>>)
                ELSE IF tests_true(pred_result.v)
                THEN execute(self, Head(chains).yield_fn, source)
                ELSE if_chains(self, Tail(chains), else_, source)
         IN  tested(resolve_value(self, Head(chains).predicate, source))

\* LeftJoin: the inner rows that pass the predicate each run yield_out_fn;
\* when none passed, right_rows_if_none runs it once.
left_join_rows(self, expr, rows, source, delivered, passed) ==
    IF rows = <<>>
    THEN IF passed > 0 THEN Delivered("Ok", delivered)
         ELSE execute(self, expr.yield_out_fn,
                      Append(source, Row(expr.source_id, expr.right_rows_if_none)))
    ELSE LET yielded(r) ==
                IF r.k # "Ok" THEN Delivered(r.k, delivered \o r.rows)
                ELSE left_join_rows(self, expr, Tail(rows), source,
                                    delivered \o r.rows, passed + 1)
             tested(pred_result) ==
                IF pred_result.k # "Ok" THEN Delivered(pred_result.k, delivered)
                ELSE IF tests_true(pred_result.v)
                THEN yielded(execute(self, expr.yield_out_fn,
                                     Append(source, Row(expr.source_id, Head(rows)))))
                ELSE left_join_rows(self, expr, Tail(rows), source, delivered, passed)
         IN  tested(resolve_value(self, expr.predicate,
                                  Append(source, Row(expr.source_id, Head(rows)))))

execute_left_join(self, expr, source) ==
    LET scanned(inner) ==
            IF inner.k # "Ok" THEN Delivered(inner.k, <<>>)
            ELSE left_join_rows(self, expr, inner.rows, source, <<>>, 0)
    IN  scanned(execute(self, expr.yield_in_fn, source))

\* A Map arm that takes the first row of yield_in_fn when there are several.
resolve_map_first_row(self, expr, source) ==
    LET driven(in) ==
            IF in.k # "Ok" THEN [k |-> in.k]
            ELSE IF Len(in.rows) >= 1
            THEN resolve_value(self, expr.yield_out_fn,
                               Append(source, Row(expr.source_id, in.rows[1])))
            ELSE Err
    IN  driven(execute(self, expr.yield_in_fn, source))

\* The Map arm of resolve_value: a subquery used as a value.
resolve_map(self, expr, source) ==
    LET driven(in) ==
            IF in.k # "Ok" THEN [k |-> in.k]
            ELSE IF Len(in.rows) = 1
            THEN resolve_value(self, expr.yield_out_fn,
                               Append(source, Row(expr.source_id, in.rows[1])))
            ELSE Err
    IN  driven(execute(self, expr.yield_in_fn, source))

execute(self, expr, source) ==
    CASE expr.k = "Scan" ->
            LET scanned(group) ==
                    IF group.k # "Ok" THEN Delivered("Panic", <<>>)
                    ELSE scan_rows(self, expr, group.v, source, <<>>)
            IN  scanned(scan_table(find_table_by_name(self.storage, expr.table).v))
      [] expr.k = "Map" ->
            LET driven(in) == map_rows(self, expr, in.rows, source, <<>>, in.k)
            IN  driven(execute(self, expr.yield_in_fn, source))
      [] expr.k = "TempGroupBy" ->
            LET filled(in, group_buckets) ==
                    IF group_buckets.k # "Ok" THEN Delivered(group_buckets.k, <<>>)
                    ELSE IF in.k # "Ok" THEN Delivered(in.k, <<>>)
                    ELSE yield_groups(self, expr, into_iter(group_buckets.v, self.hasher),
                                      source, <<>>)
                driven(in) == filled(in, fill_buckets(self, expr, in.rows, source, <<>>))
            IN  driven(execute(self, expr.yield_in_fn, source))
      [] expr.k = "Yield" ->
            LET resolved(columns) ==
                    IF columns.k = "Ok" THEN Delivered("Ok", <<columns.v>>)
                    ELSE Delivered(columns.k, <<>>)
            IN  resolved(resolve_values(self, expr.fields, source, <<>>))
      [] expr.k = "If" -> if_chains(self, expr.chains, expr.else_, source)
      [] expr.k = "LeftJoin" -> execute_left_join(self, expr, source)
      [] OTHER -> Delivered("Err", <<>>)

resolve_value(self, expr, source) ==
    CASE expr.k = "Value" -> Ok(expr.v)
      [] expr.k = "ColumnField" ->
            LET found(row) ==
                    IF row.k = "None" THEN Err
                    ELSE IF expr.column_offset >= Len(row.v) THEN Panic
                    ELSE Ok(row.v[expr.column_offset + 1])
            IN  found(find_row_from_source_id(source, expr.source_id))
      [] expr.k = "BinaryOp" ->
            LET returned(value) == IF "k" \in DOMAIN value THEN Panic ELSE Ok(value)
                applied(l, r) ==
                    IF l.k # "Ok" THEN l
                    ELSE IF r.k # "Ok" THEN r
                    ELSE CASE expr.op = "Equal" -> returned(equals(l.v, r.v))
                           [] expr.op = "NotEqual" -> returned(not_equals(l.v, r.v))
                           [] expr.op = "And" -> returned(and(l.v, r.v))
                           [] expr.op = "Or" -> returned(or(l.v, r.v))
                           [] expr.op = "Concatenate" -> returned(concat(l.v, r.v))
                           [] OTHER -> Panic
                left(l) ==
                    IF l.k # "Ok" THEN l
                    ELSE applied(l, resolve_value(self, expr.rhs, source))
            IN  left(resolve_value(self, expr.lhs, source))
      [] expr.k = "AggregateOp" -> Panic
      [] expr.k = "Map" -> resolve_map(self, expr, source)
      [] OTHER -> Err

\* The sink of execute_query_plan.
execute_query_plan(self, expr) == execute(self, expr, <<>>)

\* The value of one expression outside any row.
execute_expression(self, expr) == resolve_value(self, expr, <<>>)

(***************************************************************************)
(* The executor with its callbacks run where the code runs them            *)
(* (queryplan/execute/mod.rs:76-171): execute under a result_cb that may   *)
(* return Err.  A result_cb is the sink of execute_query_plan, the closure *)
(* of a Map arm or the closure of a TempGroupBy arm.  `sink` is the state  *)
(* the closures write: the rows the sink was invoked with, and the         *)
(* group_buckets of the TempGroupBy arms that are running.  `log` lists,   *)
(* in the order they happen: "row", the closure of a TempGroupBy arm is    *)
(* called with a row (key: the resolved group_by_values, or the failure);  *)
(* "group", yield_out_fn is executed for a bucket; "sink", the sink is     *)
(* invoked with a row.                                                     *)
(***************************************************************************)
\* A sink that returns Err on its fail_at-th invocation, Ok on the others;
\* never Err when fail_at = 0.
Sink(fail_at) ==
    [fail_at |-> fail_at, invoked |-> <<>>, group_buckets |-> <<>>, log |-> <<>>]

Logged(sink, e, key, rows) ==
    [sink EXCEPT !.log = Append(@, [e |-> e, key |-> key, rows |-> rows])]

Returned(k, sink) == [k |-> k, sink |-> sink]

SinkCb == [k |-> "Sink"]
MapCb(expr, source, result_cb) ==
    [k |-> "Map", expr |-> expr, source |-> source, result_cb |-> <<result_cb>>]
TempGroupByCb(expr, source, depth) ==
    [k |-> "TempGroupBy", expr |-> expr, source |-> source, depth |-> depth]

RECURSIVE execute_cb(_, _, _, _, _)
RECURSIVE call_result_cb(_, _, _, _)
RECURSIVE scan_cb(_, _, _, _, _, _)
RECURSIVE groups_cb(_, _, _, _, _, _)
RECURSIVE if_chains_cb(_, _, _, _, _, _)

\* result_cb(row)
call_result_cb(self, result_cb, row, sink) ==
    CASE result_cb.k = "Sink" ->
            Returned(IF Len(sink.invoked) + 1 = sink.fail_at THEN "Err" ELSE "Ok",
                     Logged([sink EXCEPT !.invoked = Append(@, row)], "sink", None, <<row>>))
      [] result_cb.k = "Map" ->
            execute_cb(self, result_cb.expr.yield_out_fn, result_cb.result_cb[1],
                       Append(result_cb.source, Row(result_cb.expr.source_id, row)), sink)
      [] result_cb.k = "TempGroupBy" ->
            LET keyed(key) ==
                    IF key.k # "Ok" THEN Returned(key.k, Logged(sink, "row", key, <<row>>))
                    ELSE Returned("Ok", Logged([sink EXCEPT !.group_buckets[result_cb.depth] =
                                                        insert(@, key.v, row)],
                                               "row", key, <<row>>))
            IN  keyed(resolve_values(self, result_cb.expr.group_by_values,
                                     Append(result_cb.source,
                                            Row(result_cb.expr.source_id, row)), <<>>))

\* A Scan loop that goes on to the next row when the execution for a row
\* did not return Ok.
scan_cb_without_try(self, expr, result_cb, group, source, sink) ==
    IF group = <<>> THEN Returned("Ok", sink)
    ELSE LET next(r) == scan_cb(self, expr, result_cb, Tail(group), source, r.sink)
         IN  next(execute_cb(self, expr.yield_fn, result_cb,
                             Append(source, Row(expr.source_id, Head(group))), sink))

\* The loop of the Scan arm: try!(self.execute(yield_fn, result_cb, ..)).
scan_cb(self, expr, result_cb, group, source, sink) ==
    IF group = <<>> THEN Returned("Ok", sink)
    ELSE LET next(r) ==
                IF r.k # "Ok" THEN r
                ELSE scan_cb(self, expr, result_cb, Tail(group), source, r.sink)
         IN  next(execute_cb(self, expr.yield_fn, result_cb,
                             Append(source, Row(expr.source_id, Head(group))), sink))

\* The loop of the TempGroupBy arm over the filled buckets.
groups_cb(self, expr, result_cb, groups, source, sink) ==
    IF groups = <<>> THEN Returned("Ok", sink)
    ELSE LET next(r) ==
                IF r.k # "Ok" THEN r
                ELSE groups_cb(self, expr, result_cb, Tail(groups), source, r.sink)
         IN  next(execute_cb(self, expr.yield_out_fn, result_cb,
                             Append(source, Group(expr.source_id, Head(groups).rows)),
                             Logged(sink, "group", Ok(Head(groups).key), Head(groups).rows)))

if_chains_cb(self, chains, else_, result_cb, source, sink) ==
    IF chains = <<>>
    THEN IF else_.k = "Some" THEN execute_cb(self, else_.v, result_cb, source, sink)
         ELSE Returned("Ok", sink)
    ELSE LET tested(pred_result) ==
                IF pred_result.k # "Ok" THEN Returned(pred_result.k, sink)
                ELSE IF tests_true(pred_result.v)
                THEN execute_cb(self, Head(chains).yield_fn, result_cb, source, sink)
                ELSE if_chains_cb(self, Tail(chains), else_, result_cb, source, sink)
         IN  tested(resolve_value(self, Head(chains).predicate, source))

execute_cb(self, expr, result_cb, source, sink) ==
    CASE expr.k = "Scan" ->
            LET scanned(group) ==
                    IF group.k # "Ok" THEN Returned("Panic", sink)
                    ELSE scan_cb(self, expr, result_cb, group.v, source, sink)
            IN  scanned(scan_table(find_table_by_name(self.storage, expr.table).v))
      [] expr.k = "Map" ->
            execute_cb(self, expr.yield_in_fn, MapCb(expr, source, result_cb), source, sink)
      [] expr.k = "TempGroupBy" ->
            LET depth == Len(sink.group_buckets) + 1
                closed(s) == [s EXCEPT !.group_buckets = SubSeq(@, 1, depth - 1)]
                filled(in) ==
                    IF in.k # "Ok" THEN Returned(in.k, closed(in.sink))
                    ELSE groups_cb(self, expr, result_cb,
                                   into_iter(in.sink.group_buckets[depth], self.hasher),
                                   source, closed(in.sink))
            IN  filled(execute_cb(self, expr.yield_in_fn,
                                  TempGroupByCb(expr, source, depth), source,
                                  [sink EXCEPT !.group_buckets = Append(@, <<>>)]))
      [] expr.k = "Yield" ->
            LET resolved(columns) ==
                    IF columns.k = "Ok" THEN call_result_cb(self, result_cb, columns.v, sink)
                    ELSE Returned(columns.k, sink)
            IN  resolved(resolve_values(self, expr.fields, source, <<>>))
      [] expr.k = "If" ->
            if_chains_cb(self, expr.chains, expr.else_, result_cb, source, sink)
      [] OTHER -> Returned("Err", sink)

\* execute_query_plan under a sink.
execute_query_plan_cb(self, expr, fail_at) ==
    execute_cb(self, expr, SinkCb, <<>>, Sink(fail_at))

(***************************************************************************)
(* The statement handlers of TempDb (tempdb/mod.rs).  Each returns         *)
(* [db |-> the tables afterwards, res |-> the ExecuteStatementResult].     *)
(***************************************************************************)
Reply(db, res) == [db |-> db, res |-> res]

\* Ok(the index of the table), or Err.
get_table_mut(db, table_name) ==
    LET found(ident) ==
            IF ident.k = "None" THEN Err
            ELSE IF \E i \in 1..Len(db) : db[i].name = ident.v
            THEN Ok(CHOOSE i \in 1..Len(db) :
                        /\ db[i].name = ident.v
                        /\ \A j \in 1..(i - 1) : db[j].name # ident.v)
            ELSE Err
    IN  found(Identifier_new(table_name))

\* Ok([data, is_null]), Err, or Panic where to_bytes(..).unwrap() fails.
variant_to_data(value, column_type, nullable) ==
    IF is_null(value)
    THEN IF nullable THEN Ok([data |-> <<>>, is_null |-> Some(TRUE)]) ELSE Err
    ELSE LET written(bytes) ==
                IF bytes.k # "Ok" THEN Panic
                ELSE Ok([data |-> bytes.v,
                         is_null |-> IF nullable THEN Some(FALSE) ELSE None])
         IN  written(to_bytes(value, column_type))

\* The column names of INSERT mapped to column offsets: Ok, Err or Panic.
RECURSIVE ast_index_to_column_index(_, _, _)
ast_index_to_column_index(table, into_columns, offsets) ==
    IF into_columns = <<>> THEN Ok(offsets)
    ELSE LET found(column) ==
                IF column.k = "None" THEN Err
                ELSE ast_index_to_column_index(table, Tail(into_columns),
                                               Append(offsets, column.v.offset))
             named(ident) ==
                IF ident.k = "None" THEN Panic
                ELSE found(find_column_by_name(table, ident.v))
         IN  named(Identifier_new(Head(into_columns)))

\* The values of one row of INSERT, column by column: Ok(column_data), Err
\* or Panic.  exprs[c] is the expression of column c, or None.
RECURSIVE insert_values(_, _, _, _, _)
insert_values(db, columns, exprs, c, v) ==
    IF c > Len(columns) THEN Ok(v)
    ELSE LET stored(data) ==
                IF data.k # "Ok" THEN data
                ELSE insert_values(db, columns, exprs, c + 1, Append(v, data.v))
             valued(value) ==
                IF value.k # "Ok" THEN value
                ELSE stored(variant_to_data(value.v, columns[c].dbtype,
                                            columns[c].nullable))
             compiled(sexpr) ==
                IF sexpr.k # "Ok" THEN [k |-> sexpr.k]
                ELSE valued(execute_expression(ExecuteQueryPlan(db, 0), sexpr.v))
         IN  IF exprs[c].k = "Some"
             THEN compiled(compile_ast_expression(db, exprs[c].v))
             ELSE stored(Ok([data |-> get_default(columns[c].dbtype),
                             is_null |-> IF columns[c].nullable THEN Some(TRUE)
                                         ELSE None]))

\* A loop over the rows of VALUES that passes over a row that fails.
RECURSIVE insert_rows_skipping_failed(_, _, _, _, _)
insert_rows_skipping_failed(db, t, offsets, rows, count) ==
    IF rows = <<>> THEN Reply(db, [k |-> "Inserted", count |-> count])
    ELSE IF Len(offsets) # Len(Head(rows)) THEN Reply(db, Err)
    ELSE LET exprs == [c \in 1..Len(db[t].columns) |->
                        IF \E i \in 1..Len(offsets) : offsets[i] = c - 1
                        THEN Some(Head(rows)[CHOOSE i \in 1..Len(offsets) :
                                    /\ offsets[i] = c - 1
                                    /\ \A j \in (i + 1)..Len(offsets) : offsets[j] # c - 1])
                        ELSE None]
             inserted(table) ==
                IF table.k # "Ok"
                THEN insert_rows_skipping_failed(db, t, offsets, Tail(rows), count)
                ELSE insert_rows_skipping_failed([db EXCEPT ![t] = table.v], t, offsets, Tail(rows),
                                 count + 1)
             valued(v) ==
                IF v.k # "Ok"
                THEN insert_rows_skipping_failed(db, t, offsets, Tail(rows), count)
                ELSE inserted(insert_row(db[t], v.v))
         IN  valued(insert_values(db, db[t].columns, exprs, 1, <<>>))

\* The loop of insert_into over the rows of VALUES.
RECURSIVE insert_rows(_, _, _, _, _)
insert_rows(db, t, offsets, rows, count) ==
    IF rows = <<>> THEN Reply(db, [k |-> "Inserted", count |-> count])
    ELSE IF Len(offsets) # Len(Head(rows)) THEN Reply(db, Err)
    ELSE LET exprs == [c \in 1..Len(db[t].columns) |->
                        IF \E i \in 1..Len(offsets) : offsets[i] = c - 1
                        THEN Some(Head(rows)[CHOOSE i \in 1..Len(offsets) :
                                    /\ offsets[i] = c - 1
                                    /\ \A j \in (i + 1)..Len(offsets) : offsets[j] # c - 1])
                        ELSE None]
             inserted(table) ==
                IF table.k # "Ok" THEN Reply(db, table)
                ELSE insert_rows([db EXCEPT ![t] = table.v], t, offsets, Tail(rows),
                                 count + 1)
             valued(v) ==
                IF v.k # "Ok" THEN Reply(db, v)
                ELSE inserted(insert_row(db[t], v.v))
         IN  valued(insert_values(db, db[t].columns, exprs, 1, <<>>))

insert_into(db, insert_stmt) ==
    LET mapped(t, offsets) ==
            IF offsets.k # "Ok" THEN Reply(db, offsets)
            ELSE IF insert_stmt.source.k = "Select" THEN Reply(db, Panic)
            ELSE insert_rows(db, t.v, offsets.v, insert_stmt.source.rows, 0)
        found(t) ==
            IF t.k # "Ok" THEN Reply(db, Err)
            ELSE mapped(t,
                    IF insert_stmt.into_columns.k = "Some"
                    THEN ast_index_to_column_index(db[t.v], insert_stmt.into_columns.v, <<>>)
                    ELSE Ok([i \in 1..get_column_count(db[t.v]) |-> i - 1]))
    IN  found(get_table_mut(db, insert_stmt.table.table_name))

\* TempDb::select: the plan compile_select gives, and the response; `rows` are the
\* rows pushed by the callback, also when the execution ends in Err.
tempdb_select(db, hasher, select_stmt) ==
    LET executed(p, e) ==
            [plan |-> Ok(p.v),
             res |-> [k |-> IF e.k = "Ok" THEN "Select" ELSE e.k,
                      column_names |-> p.v.out_column_names,
                      rows |-> e.rows]]
        compiled(p) ==
            IF p.k = "Err" THEN [plan |-> p, res |-> Err]
            ELSE IF p.k = "Panic" THEN [plan |-> p, res |-> Panic]
            ELSE executed(p, execute_query_plan(ExecuteQueryPlan(db, hasher), p.v.expr))
    IN  compiled(compile_select(db, select_stmt))

(***************************************************************************)
(* The engine under statements: CREATE TABLE, INSERT and SELECT run        *)
(* through the handlers of TempDb, starting from TempDb::new().            *)
(***************************************************************************)
RECURSIVE TotalRows(_)
TotalRows(db) ==
    IF db = <<>> THEN 0
    ELSE Cardinality(Head(db).rowid_index) + TotalRows(Tail(db))

RECURSIVE Factorial(_)
Factorial(n) == IF n <= 1 THEN 1 ELSE n * Factorial(n - 1)

\* CREATE TABLE l(x INT NULL); CREATE TABLE r(x INT NULL, z STRING NULL);
CreateStatements ==
    LET column(name, type_name) ==
            [column_name |-> name, type_name |-> type_name, type_size |-> None,
             type_array_size |-> None, constraints |-> <<"Nullable">>]
        create(name, columns) ==
            [table |-> [database_name |-> None, table_name |-> name],
             columns |-> columns]
    IN  << create(Str.l, <<column(Str.x, Str.int)>>),
           create(Str.r, <<column(Str.x, Str.int), column(Str.z, Str.string)>>) >>

\* INSERT INTO .. VALUES ..
InsertStatements ==
    LET values(name, rows) ==
            [table |-> [database_name |-> None, table_name |-> name],
             into_columns |-> None, source |-> [k |-> "Values", rows |-> rows]]
        one == AstNumber(<<49>>)
        two == AstNumber(<<50>>)
        a == AstStringLiteral(<<97>>)
        b == AstStringLiteral(<<98>>)
    IN  << values(Str.l, << <<one>> >>),
           values(Str.l, << <<AstNull>> >>),
           values(Str.r, << <<one, a>> >>),
           values(Str.r, << <<two, b>> >>),
           values(Str.l, << <<one>>, <<AstNull>> >>),
           values(Str.l, << <<one, two>> >>),
           values(Str.m, << <<one>> >>) >>

InitEngine ==
    /\ va = Null
    /\ vb = Null
    /\ vc = Null
    /\ vop = "none"
    /\ vres = None
    /\ tempdb = <<>>
    /\ statement = NoStmt
    /\ queryplan = None
    /\ outcome = None

CreateTable ==
    \E i \in 1..Len(CreateStatements) :
        /\ statement' = [k |-> "Create", v |-> CreateStatements[i]]
        /\ tempdb' = create_table(tempdb, CreateStatements[i]).db
        /\ outcome' = create_table(tempdb, CreateStatements[i]).res
        /\ queryplan' = None
        /\ UNCHANGED <<va, vb, vc, vop, vres>>

Insert ==
    \E i \in 1..Len(InsertStatements) :
        /\ TotalRows(tempdb) + Len(InsertStatements[i].source.rows) <= MaxRows
        /\ statement' = [k |-> "Insert", v |-> InsertStatements[i]]
        /\ tempdb' = insert_into(tempdb, InsertStatements[i]).db
        /\ outcome' = insert_into(tempdb, InsertStatements[i]).res
        /\ queryplan' = None
        /\ UNCHANGED <<va, vb, vc, vop, vres>>

\* One SELECT of `stmts`, under one of the iteration orders `hashers`.
Select(stmts, hashers) ==
    \E i \in 1..Len(stmts), hasher \in hashers :
        /\ statement' = [k |-> "Select", v |-> stmts[i]]
        /\ queryplan' = tempdb_select(tempdb, hasher, stmts[i]).plan
        /\ outcome' = tempdb_select(tempdb, hasher, stmts[i]).res
        /\ UNCHANGED <<tempdb, va, vb, vc, vop, vres>>

\* SELECT over a comma-separated FROM list, without aggregates.
CrossStatements ==
    LET x == AstIdent(Str.x)
        z == AstIdent(Str.z)
        one == AstNumber(<<49>>)
        l == AstTable(Str.l, None)
        r == AstTable(Str.r, None)
        lx == AstIdentMember(Str.l, Str.x)
        rx == AstIdentMember(Str.r, Str.x)
        mx == AstIdentMember(Str.m, Str.x)
        col(e) == SelectExpr(e, None)
        from(result_columns, tables, where_expr) ==
            SelectStatement(result_columns, Cross(tables), where_expr, <<>>, None)
    IN  << from(<<col(x)>>, <<l>>, None),
           from(<<AllColumns>>, <<l, r>>, None),
           from(<<AllColumns>>, <<r, l>>, None),
           from(<<col(lx), col(z)>>, <<l, r>>, Some(AstBinaryOp("Equal", lx, rx))),
           from(<<AllColumns>>, <<l, r>>, Some(AstBinaryOp("NotEqual", lx, rx))),
           from(<<AllColumns>>, <<l>>, Some(AstBinaryOp("Equal", x, AstNull))),
           from(<<AllColumns>>, <<l, AstTable(Str.l, Some(Str.m))>>, None),
           from(<<col(AstIdent(Str.X)), col(one)>>, <<l>>,
                Some(AstBinaryOp("Or", AstBinaryOp("Equal", x, one),
                                       AstBinaryOp("Equal", x, AstNull)))),
           from(<<col(z)>>, <<AstFromSubquery(from(<<col(z)>>, <<r>>, None), Str.m), l>>,
                Some(AstBinaryOp("Equal", z, AstStringLiteral(<<97>>)))),
           from(<<col(x)>>, <<l, r>>, None),
           from(<<col(z)>>, <<l>>, None),
           from(<<AllColumns>>, <<AstTable(Str.m, None)>>, None),
           from(<<AllColumns>>, <<l>>, Some(AstBinaryOp("LessThan", x, one))),
           from(<<col(AstUnaryOp("Negate", x))>>, <<l>>, None) >>

SelectCross == Select(CrossStatements, {0})

NextCross == CreateTable \/ Insert \/ SelectCross

SpecCross == InitEngine /\ [][NextCross]_vars

\* SELECT over FROM .. [LEFT] JOIN .. ON ..
JoinStatements ==
    LET z == AstIdent(Str.z)
        one == AstNumber(<<49>>)
        l == AstTable(Str.l, None)
        r == AstTable(Str.r, None)
        lx == AstIdentMember(Str.l, Str.x)
        rx == AstIdentMember(Str.r, Str.x)
        mx == AstIdentMember(Str.m, Str.x)
        rz == AstIdentMember(Str.r, Str.z)
        col(e) == SelectExpr(e, None)
        on(op, lhs, rhs) == AstBinaryOp(op, lhs, rhs)
        from(result_columns, table, joins, where_expr) ==
            SelectStatement(result_columns, Join(table, joins), where_expr, <<>>, None)
    IN  << from(<<col(lx), col(rz)>>, l, <<AstJoin("Left", r, on("Equal", lx, rx))>>, None),
           from(<<AllColumns>>, l, <<AstJoin("Left", r, on("Equal", lx, rx))>>, None),
           from(<<AllColumns>>, r, <<AstJoin("Left", l, on("Equal", lx, rx))>>, None),
           from(<<AllColumns>>, l, <<AstJoin("Left", r, on("Equal", one, one))>>, None),
           from(<<AllColumns>>, l, <<AstJoin("Left", r, on("NotEqual", lx, rx))>>,
                Some(on("Equal", z, AstStringLiteral(<<97>>)))),
           from(<<AllColumns>>, l,
                <<AstJoin("Left", AstTable(Str.l, Some(Str.m)), on("NotEqual", lx, mx))>>,
                None),
           from(<<AllColumns>>, l, <<AstJoin("Inner", r, on("Equal", lx, rx))>>, None),
           from(<<col(lx), col(mx)>>, l,
                <<AstJoin("Left", r, on("Equal", lx, rx)),
                  AstJoin("Left", AstTable(Str.l, Some(Str.m)), on("Equal", mx, rx))>>,
                None),
           from(<<AllColumns>>, l, <<AstJoin("Left", r, on("LessThan", lx, rx))>>, None),
           from(<<AllColumns>>, l, <<AstJoin("Left", AstTable(Str.m, None),
                                             on("Equal", lx, mx))>>, None) >>

\* SELECT with a subquery used as a value.
ScalarStatements ==
    LET x == AstIdent(Str.x)
        z == AstIdent(Str.z)
        one == AstNumber(<<49>>)
        l == AstTable(Str.l, None)
        r == AstTable(Str.r, None)
        lx == AstIdentMember(Str.l, Str.x)
        rx == AstIdentMember(Str.r, Str.x)
        mx == AstIdentMember(Str.m, Str.x)
        col(e) == SelectExpr(e, None)
        from(result_columns, tables, where_expr) ==
            SelectStatement(result_columns, Cross(tables), where_expr, <<>>, None)
        sub(e, tables, where_expr) == AstSubquery(from(<<col(e)>>, tables, where_expr))
    IN  << from(<<col(sub(x, <<r>>, None))>>, <<l>>, None),
           from(<<col(sub(z, <<r>>, Some(AstBinaryOp("Equal", rx, lx)))), col(x)>>,
                <<l>>, None),
           from(<<col(x)>>, <<l>>, Some(AstBinaryOp("Equal", x, sub(x, <<r>>, None)))),
           from(<<col(sub(mx, <<AstTable(Str.l, Some(Str.m))>>,
                          Some(AstBinaryOp("Equal", mx, lx))))>>, <<l>>, None),
           from(<<col(AstSubquery(from(<<AllColumns>>, <<r>>, None)))>>, <<l>>, None),
           from(<<col(sub(sub(x, <<l>>, None), <<r>>, None))>>, <<l>>, None),
           from(<<col(sub(one, <<l>>, None))>>, <<r>>, None),
           from(<<col(sub(z, <<l>>, None))>>, <<l>>, None),
           from(<<col(sub(x, <<r>>, Some(AstBinaryOp("LessThan", x, one))))>>, <<l>>,
                None) >>

\* SELECT with GROUP BY, HAVING or aggregate calls.
GroupStatements ==
    LET x == AstIdent(Str.x)
        z == AstIdent(Str.z)
        one == AstNumber(<<49>>)
        l == AstTable(Str.l, None)
        r == AstTable(Str.r, None)
        lx == AstIdentMember(Str.l, Str.x)
        rx == AstIdentMember(Str.r, Str.x)
        col(e) == SelectExpr(e, None)
        sum(arguments) == AstFunctionCall(Str.sum, arguments)
        from(result_columns, tables, where_expr, group_by, having) ==
            SelectStatement(result_columns, Cross(tables), where_expr, group_by, having)
    IN  << from(<<col(x)>>, <<l>>, None, <<x>>, None),
           from(<<col(one)>>, <<l>>, None, <<x>>, None),
           from(<<col(x), col(sum(<<x>>))>>, <<l>>, None, <<x>>, None),
           from(<<col(AstFunctionCall(Str.count, <<x>>))>>, <<l>>, None, <<>>, None),
           from(<<col(AstFunctionCallAggregateAll(Str.count))>>, <<l>>, None, <<>>, None),
           from(<<col(AstUnaryOp("Negate", x))>>, <<l>>, None, <<x>>, None),
           from(<<col(one)>>, <<l>>, None, <<x>>,
                Some(AstBinaryOp("Equal", sum(<<x>>), one))),
           from(<<col(AstStringLiteral(<<97>>))>>, <<r>>, None, <<x, z>>, None),
           from(<<col(AstSubquery(from(<<col(z)>>, <<r>>,
                                       Some(AstBinaryOp("Equal", rx, lx)), <<>>, None)))>>,
                <<l>>, None, <<x>>, None),
           from(<<col(one)>>, <<l, r>>, Some(AstBinaryOp("Equal", lx, rx)), <<rx>>, None),
           from(<<AllColumns>>, <<l>>, None, <<x>>, None),
           from(<<col(one)>>, <<l>>, None, <<AstUnaryOp("Negate", x)>>, None),
           from(<<col(sum(<<one>>))>>, <<l>>, None, <<>>, None),
           from(<<col(sum(<<x, x>>))>>, <<l>>, None, <<>>, None),
           from(<<col(AstFunctionCall(Str.m, <<x>>))>>, <<l>>, None, <<>>, None),
           from(<<col(AstFunctionCallAggregateAll(Str.sum))>>, <<l>>, None, <<>>, None) >>

SelectJoin == Select(JoinStatements, {0})

SelectScalar == Select(ScalarStatements, {0})

\* The buckets of a TempGroupBy come out in any order.
SelectGroup == Select(GroupStatements, 0..(Factorial(TotalRows(tempdb)) - 1))

NextJoin == CreateTable \/ Insert \/ SelectJoin

NextScalar == CreateTable \/ Insert \/ SelectScalar

NextGroup == CreateTable \/ Insert \/ SelectGroup

SpecJoin == InitEngine /\ [][NextJoin]_vars

SpecScalar == InitEngine /\ [][NextScalar]_vars

SpecGroup == InitEngine /\ [][NextGroup]_vars

(***************************************************************************)
(* SpecUser: statements with ORDER BY, with ordering and arithmetic        *)
(* operators, and INSERT of a value the column's type cannot hold.         *)
(***************************************************************************)
UserSelects ==
    LET x == AstIdent(Str.x)
        one == AstNumber(<<49>>)
        l == AstTable(Str.l, None)
        col(e) == SelectExpr(e, None)
        from(result_columns, where_expr) ==
            SelectStatement(result_columns, Cross(<<l>>), where_expr, <<>>, None)
        ordered(stmt) == [stmt EXCEPT !.order_by = <<[expr |-> x, order |-> "Ascending"]>>]
    IN  << from(<<col(x)>>, None),
           ordered(from(<<col(x)>>, None)),
           from(<<col(x)>>, Some(AstBinaryOp("LessThan", x, one))),
           from(<<col(x)>>, Some(AstBinaryOp("GreaterThanOrEqual", x, one))),
           from(<<col(AstBinaryOp("Add", x, one))>>, None),
           from(<<col(AstBinaryOp("Multiply", x, one))>>, None),
           from(<<col(x)>>, Some(AstBinaryOp("Equal", x, one))),
           from(<<col(AstIdent(Str.z))>>, None) >>

UserInserts ==
    LET values(name, rows) ==
            [table |-> [database_name |-> None, table_name |-> name],
             into_columns |-> None, source |-> [k |-> "Values", rows |-> rows]]
    IN  << values(Str.l, << <<AstNumber(<<49>>)>> >>),
           values(Str.l, << <<AstStringLiteral(<<97>>)>> >>),
           values(Str.l, << <<AstNull>> >>),
           values(Str.r, << <<AstNumber(<<50>>), AstStringLiteral(<<98>>)>> >>),
           values(Str.r, << <<AstStringLiteral(<<98>>), AstNumber(<<50>>)>> >>) >>

InsertUser ==
    \E i \in 1..Len(UserInserts) :
        /\ TotalRows(tempdb) + Len(UserInserts[i].source.rows) <= MaxRows
        /\ statement' = [k |-> "Insert", v |-> UserInserts[i]]
        /\ tempdb' = insert_into(tempdb, UserInserts[i]).db
        /\ outcome' = insert_into(tempdb, UserInserts[i]).res
        /\ queryplan' = None
        /\ UNCHANGED <<va, vb, vc, vop, vres>>

SelectUser == Select(UserSelects, {0})

NextUser == CreateTable \/ InsertUser \/ SelectUser

SpecUser == InitEngine /\ [][NextUser]_vars

\* C13: no statement ends in a panic: every CREATE TABLE, INSERT and SELECT
\* ends in a result or in an error value, with ORDER BY, with ordering and
\* arithmetic operators, and with a value that cannot be cast to the
\* column's type.
C13_NoPanicOnUserInput == outcome.k # "Panic"

(***************************************************************************)
(* SpecSink: SELECT statements executed under a row sink that returns Err  *)
(* on one of its invocations.                                              *)
(***************************************************************************)
SinkStatements ==
    << CrossStatements[2], CrossStatements[5], CrossStatements[9],
       GroupStatements[2], GroupStatements[10] >>

\* One SELECT compiled and executed; the sink never fails (fail_at = 0) or
\* fails at its first or its second row.
\* `rows` are the rows of the same plan under a sink that always returns Ok.
SelectSink ==
    \E i \in 1..Len(SinkStatements), fail_at \in 0..2 :
        LET executed(p, e) ==
                [k |-> e.k, fail_at |-> fail_at, invoked |-> e.sink.invoked,
                 rows |-> execute_query_plan(ExecuteQueryPlan(tempdb, 0), p.v.expr).rows]
            compiled(p) ==
                /\ queryplan' = p
                /\ outcome' =
                        IF p.k # "Ok" THEN [k |-> "Compile" \o p.k]
                        ELSE executed(p, execute_query_plan_cb(ExecuteQueryPlan(tempdb, 0),
                                                               p.v.expr, fail_at))
        IN  /\ statement' = [k |-> "Select", v |-> SinkStatements[i]]
            /\ compiled(compile_select(tempdb, SinkStatements[i]))
            /\ UNCHANGED <<tempdb, va, vb, vc, vop, vres>>

NextSink == CreateTable \/ Insert \/ SelectSink

SpecSink == InitEngine /\ [][NextSink]_vars

SinkReturnedErr ==
    /\ statement.k = "Select"
    /\ outcome.k \in {"Ok", "Err", "Panic"}
    /\ outcome.fail_at > 0
    /\ Len(outcome.invoked) >= outcome.fail_at

\* C14: once the row sink has returned Err for a row, execute_query_plan
\* returns Err and the sink is not invoked again, whatever the shape of the
\* plan (nested Scan, Map, If, TempGroupBy): the sink saw exactly the rows
\* up to the one it refused.
C14_SinkErrEndsExecution ==
    SinkReturnedErr =>
        /\ outcome.k = "Err"
        /\ Len(outcome.invoked) = outcome.fail_at
        /\ outcome.invoked = SubSeq(outcome.rows, 1, outcome.fail_at)

\* A grouped select of two groups or more whose sink refused the first row.
C14_Witness ==
    /\ SinkReturnedErr
    /\ outcome.fail_at = 1
    /\ queryplan.k = "Ok"
    /\ queryplan.v.expr.k = "TempGroupBy"
    /\ Len(outcome.rows) >= 2
    /\ outcome.k = "Err"
    /\ Len(outcome.invoked) = 1

(***************************************************************************)
(* SpecBuckets: grouped SELECT statements, with the events of the          *)
(* TempGroupBy arm in the order they happen.                               *)
(***************************************************************************)
\* The last one is SELECT 1 FROM l, r GROUP BY l.x.
BucketStatements ==
    << GroupStatements[1], GroupStatements[2], GroupStatements[8], GroupStatements[10],
       GroupStatements[12],
       [GroupStatements[10] EXCEPT !.where_expr = None,
                                   !.group_by = <<AstIdentMember(Str.l, Str.x)>>] >>

\* One grouped SELECT compiled and executed under a sink that returns Ok,
\* the buckets iterated in the order the hasher gives. The rows inserted
\* have at most two different keys: the hashers give both orders of two
\* buckets.
SelectBuckets ==
    \E i \in 1..Len(BucketStatements), hasher \in 0..1 :
        LET executed(e) == [k |-> e.k, invoked |-> e.sink.invoked, log |-> e.sink.log]
            compiled(p) ==
                /\ queryplan' = p
                /\ outcome' =
                        IF p.k # "Ok" THEN [k |-> "Compile" \o p.k]
                        ELSE executed(execute_query_plan_cb(ExecuteQueryPlan(tempdb, hasher),
                                                            p.v.expr, 0))
        IN  /\ statement' = [k |-> "Select", v |-> BucketStatements[i]]
            /\ compiled(compile_select(tempdb, BucketStatements[i]))
            /\ UNCHANGED <<tempdb, va, vb, vc, vop, vres>>

NextBuckets == CreateTable \/ Insert \/ SelectBuckets

SpecBuckets == InitEngine /\ [][NextBuckets]_vars

\* The plan was executed: a TempGroupBy arm at its top.
GroupByExecuted ==
    /\ statement.k = "Select"
    /\ queryplan.k = "Ok"
    /\ queryplan.v.expr.k = "TempGroupBy"
    /\ outcome.k \in {"Ok", "Err", "Panic"}

Events(e) == SelectSeq(outcome.log, LAMBDA event : event.e = e)

\* The keys of a sequence of events, each at its first appearance.
RECURSIVE FirstAppearance(_, _)
FirstAppearance(events, seen) ==
    IF events = <<>> THEN seen
    ELSE FirstAppearance(Tail(events),
                         IF \E i \in 1..Len(seen) : seen[i] = Head(events).key THEN seen
                         ELSE Append(seen, Head(events).key))

\* C15: TempGroupBy executes yield_out_fn for the groups in the order in
\* which their keys first appear among the input rows.
C15_GroupsInFirstAppearanceOrder ==
    (GroupByExecuted /\ outcome.k = "Ok") =>
        [i \in 1..Len(Events("group")) |-> Events("group")[i].key]
            = FirstAppearance(Events("row"), <<>>)

\* The rows given to the closure with a key, in input order.
RowsOfKey(key) ==
    LET rows(events) == [i \in 1..Len(events) |-> events[i].rows[1]]
    IN  rows(SelectSeq(Events("row"), LAMBDA event : event.key = key))

\* C16: no yield_out_fn of a TempGroupBy is executed, and no row reaches the
\* sink, before yield_in_fn has been drained into the buckets; every input
\* row is then in exactly one bucket, the rows of a bucket in input order;
\* and when draining fails no yield_out_fn is executed.
C16_BucketsFilledBeforeGroupsYield ==
    GroupByExecuted =>
        /\ \A i, j \in 1..Len(outcome.log) :
                (outcome.log[i].e = "row" /\ outcome.log[j].e # "row") => i < j
        /\ \A i \in 1..Len(Events("group")) :
                /\ Events("group")[i].rows = RowsOfKey(Events("group")[i].key)
                /\ \A j \in 1..Len(Events("group")) :
                        Events("group")[i].key = Events("group")[j].key => i = j
        /\ outcome.k = "Ok" =>
                \A i \in 1..Len(Events("row")) :
                    \E j \in 1..Len(Events("group")) :
                        Events("group")[j].key = Events("row")[i].key
        /\ (\E i \in 1..Len(Events("row")) : Events("row")[i].key.k # "Ok") =>
                /\ outcome.k # "Ok"
                /\ Events("group") = <<>>
                /\ outcome.invoked = <<>>

\* Input rows drained into a bucket of two different rows, and the group
\* yielded.
C16_Witness ==
    /\ GroupByExecuted
    /\ outcome.k = "Ok"
    /\ Len(Events("row")) >= 2
    /\ \E i \in 1..Len(Events("group")) :
            /\ Len(Events("group")[i].rows) = 2
            /\ Events("group")[i].rows[1] # Events("group")[i].rows[2]
    /\ Len(outcome.invoked) = Len(Events("group"))

(***************************************************************************)
(* SpecScope: the lookup of a bare column name in chains of scopes         *)
(* (SourceScope::get_column_offset).                                       *)
(***************************************************************************)
\* The column names of one table or subquery of a frame.
ScopeColumns == {<<Str.x>>, <<Str.z>>, <<Str.x, Str.x>>}

\* A frame: no, one or two tables.
ScopeFrames ==
    {<<>>} \cup {<<c>> : c \in ScopeColumns}
           \cup {<<c, d>> : c \in ScopeColumns, d \in ScopeColumns}

\* Chains of one to three frames, the innermost first.
ScopeChains ==
    {<<f>> : f \in ScopeFrames}
    \cup {<<f, g>> : f \in ScopeFrames, g \in ScopeFrames}
    \cup {<<f, g, h>> : f \in {<<>>, <<<<Str.x>>>>, <<<<Str.z>>>>},
                        g \in ScopeFrames, h \in ScopeFrames}

\* The SourceScope of a chain; the table i of the frame at depth d has the
\* source_id 10 * d + i.
RECURSIVE ScopeOf(_, _)
ScopeOf(frames, depth) ==
    SourceScope(IF Len(frames) = 1 THEN None ELSE Some(ScopeOf(Tail(frames), depth + 1)),
                [i \in 1..Len(Head(frames)) |->
                    TableOrSubquery(10 * depth + i, Head(frames)[i])],
                [i \in 1..Len(Head(frames)) |-> Str.m])

InitScope ==
    /\ va \in ScopeChains
    /\ vb \in {Str.x, Str.z}
    /\ vc = Null
    /\ vop = "none"
    /\ vres = None
    /\ tempdb = NoTables
    /\ statement = NoStmt
    /\ queryplan = None
    /\ outcome = None

\* scope.get_column_offset(&column_identifier)
GetColumnOffset ==
    /\ vop = "none"
    /\ vop' = "get_column_offset"
    /\ vres' = get_column_offset(ScopeOf(va, 1), vb)
    /\ UNCHANGED <<va, vb, vc, tempdb, statement, queryplan, outcome>>

NextScope == GetColumnOffset

SpecScope == InitScope /\ [][NextScope]_vars

\* The candidates of the frame at a depth of the chain va for the name vb.
CandidatesAt(depth) ==
    UNION {{<<10 * depth + i, o>> : o \in get_column_offsets(va[depth][i], vb)} :
           i \in 1..Len(va[depth])}

\* C17: the lookup of a bare column resolves against the nearest frame that
\* has a candidate: one candidate there gives that (source_id, offset), also
\* when an outer frame has a column of the name; several candidates there
\* give Ambiguous; no candidate in any frame gives None.
C17_NearestFrameDecides ==
    vop = "get_column_offset" =>
        IF \A d \in 1..Len(va) : CandidatesAt(d) = {}
        THEN vres.k = "None"
        ELSE LET nearest == CHOOSE d \in 1..Len(va) :
                                /\ CandidatesAt(d) # {}
                                /\ \A e \in 1..(d - 1) : CandidatesAt(e) = {}
             IN  IF Cardinality(CandidatesAt(nearest)) = 1
                 THEN vres.k = "One" /\ vres.v \in CandidatesAt(nearest)
                 ELSE vres.k = "Ambiguous"

(***************************************************************************)
(* SpecCompile: SELECT statements compiled, the state of the compilers of  *)
(* one compile_select kept with the plan.                                  *)
(***************************************************************************)
\* SELECT x, sum(x), count(*) FROM l GROUP BY x HAVING count(x) = 1;
\* SELECT (SELECT count(*) FROM r), count(*) FROM l;
\* SELECT (SELECT sum(l.x) FROM r) FROM l;
\* SELECT count(*), count(*) FROM l, r;
\* SELECT z FROM (SELECT z, count(*) FROM r GROUP BY z) m GROUP BY z;
\* and the statements of GroupStatements.
CompileStatements ==
    LET x == AstIdent(Str.x)
        z == AstIdent(Str.z)
        l == AstTable(Str.l, None)
        r == AstTable(Str.r, None)
        col(e) == SelectExpr(e, None)
        count_all == AstFunctionCallAggregateAll(Str.count)
        call(name, e) == AstFunctionCall(name, <<e>>)
        from(result_columns, tables, group_by, having) ==
            SelectStatement(result_columns, Cross(tables), None, group_by, having)
    IN  << from(<<col(x), col(call(Str.sum, x)), col(count_all)>>, <<l>>, <<x>>,
                Some(AstBinaryOp("Equal", call(Str.count, x), AstNumber(<<49>>)))),
           from(<<col(AstSubquery(from(<<col(count_all)>>, <<r>>, <<>>, None))),
                  col(count_all)>>, <<l>>, <<>>, None),
           from(<<col(AstSubquery(from(<<col(call(Str.sum, AstIdentMember(Str.l, Str.x)))>>,
                                       <<r>>, <<>>, None)))>>, <<l>>, <<>>, None),
           from(<<col(count_all), col(count_all)>>, <<l, r>>, <<>>, None),
           from(<<col(z)>>,
                <<AstFromSubquery(from(<<col(z), col(count_all)>>, <<r>>, <<z>>, None),
                                  Str.m)>>, <<z>>, None) >>
    \o GroupStatements

CompileSelect ==
    \E i \in 1..Len(CompileStatements) :
        /\ statement' = [k |-> "Select", v |-> CompileStatements[i]]
        /\ queryplan' = compile_select(tempdb, CompileStatements[i])
        /\ outcome' = None
        /\ UNCHANGED <<tempdb, va, vb, vc, vop, vres>>

NextCompile == CreateTable \/ Insert \/ CompileSelect

SpecCompile == InitEngine /\ [][NextCompile]_vars

\* The nodes of a plan that carry a source_id, each with its kind; a
\* TempGroupBy with the source ids of the FROM chain it groups.
RECURSIVE ChainSourceIds(_)
ChainSourceIds(expr) ==
    CASE expr.k = "Scan" -> {expr.source_id} \cup ChainSourceIds(expr.yield_fn)
      [] expr.k = "Map" -> {expr.source_id} \cup ChainSourceIds(expr.yield_out_fn)
      [] expr.k = "LeftJoin" -> {expr.source_id} \cup ChainSourceIds(expr.yield_out_fn)
      [] expr.k = "If" -> ChainSourceIds(expr.chains[1].yield_fn)
      [] OTHER -> {}

SourceNode(kind, source_id, from) == [k |-> kind, source_id |-> source_id, from |-> from]

RECURSIVE SourceNodes(_)
SourceNodes(expr) ==
    CASE expr.k = "Scan" ->
            {SourceNode("Scan", expr.source_id, {})} \cup SourceNodes(expr.yield_fn)
      [] expr.k = "Map" ->
            {SourceNode("Map", expr.source_id, {})}
            \cup SourceNodes(expr.yield_in_fn) \cup SourceNodes(expr.yield_out_fn)
      [] expr.k = "TempGroupBy" ->
            {SourceNode("TempGroupBy", expr.source_id, ChainSourceIds(expr.yield_in_fn))}
            \cup SourceNodes(expr.yield_in_fn) \cup SourceNodes(expr.yield_out_fn)
            \cup UNION {SourceNodes(expr.group_by_values[i]) :
                            i \in 1..Len(expr.group_by_values)}
      [] expr.k = "LeftJoin" ->
            {SourceNode("LeftJoin", expr.source_id, {})}
            \cup SourceNodes(expr.yield_in_fn) \cup SourceNodes(expr.predicate)
            \cup SourceNodes(expr.yield_out_fn)
      [] expr.k = "Yield" -> UNION {SourceNodes(expr.fields[i]) : i \in 1..Len(expr.fields)}
      [] expr.k = "If" ->
            UNION {SourceNodes(expr.chains[i].predicate) \cup SourceNodes(expr.chains[i].yield_fn) :
                        i \in 1..Len(expr.chains)}
            \cup (IF expr.else_.k = "Some" THEN SourceNodes(expr.else_.v) ELSE {})
      [] expr.k = "UnaryOp" -> SourceNodes(expr.expr)
      [] expr.k = "BinaryOp" -> SourceNodes(expr.lhs) \cup SourceNodes(expr.rhs)
      [] expr.k = "AggregateOp" ->
            {SourceNode("AggregateOp", expr.source_id, {})} \cup SourceNodes(expr.value)
      [] expr.k = "CountAll" -> {SourceNode("CountAll", expr.source_id, {})}
      [] OTHER -> {}

PlanCompiled == statement.k = "Select" /\ queryplan.k = "Ok" /\ "self" \in DOMAIN queryplan

AggregatedSourceIds ==
    {queryplan.self.query_to_aggregated_source_id[q] :
        q \in DOMAIN queryplan.self.query_to_aggregated_source_id}

GroupedNodes ==
    {n \in SourceNodes(queryplan.v.expr) : n.k \in {"TempGroupBy", "AggregateOp", "CountAll"}}

\* C18: within one compile_select every request for the grouped source of a
\* query gets the same source_id and only the first takes a fresh id: the
\* map from queries to grouped sources is injective and agrees with
\* source_id_to_query_id, the ids handed out are those of the FROM sources
\* and one per grouped query, each grouped query has one TempGroupBy that
\* groups the FROM sources of that query, and every TempGroupBy, AggregateOp
\* and CountAll carries the grouped source of its query.
C18_GroupedSourceOncePerQuery ==
    PlanCompiled =>
        LET query_to_aggregated_source_id == queryplan.self.query_to_aggregated_source_id
            source_id_to_query_id == queryplan.self.source_id_to_query_id
            nodes == SourceNodes(queryplan.v.expr)
        IN  /\ \A p, q \in DOMAIN query_to_aggregated_source_id :
                    query_to_aggregated_source_id[p] = query_to_aggregated_source_id[q] => p = q
            /\ \A q \in DOMAIN query_to_aggregated_source_id :
                    /\ query_to_aggregated_source_id[q] \in DOMAIN source_id_to_query_id
                    /\ source_id_to_query_id[query_to_aggregated_source_id[q]] = q
                    /\ Cardinality({n \in GroupedNodes :
                            /\ n.k = "TempGroupBy"
                            /\ n.source_id = query_to_aggregated_source_id[q]}) = 1
            /\ DOMAIN source_id_to_query_id = 0..(queryplan.self.next_source_id - 1)
            /\ (DOMAIN source_id_to_query_id) \ {n.source_id : n \in nodes \ GroupedNodes}
                    = AggregatedSourceIds
            /\ \A n \in GroupedNodes :
                    /\ n.source_id \in AggregatedSourceIds
                    /\ \A s \in n.from :
                            source_id_to_query_id[s] = source_id_to_query_id[n.source_id]

\* GROUP BY, sum(x), count(*) and count(x) of one query: one TempGroupBy and
\* three aggregates on one grouped source.
C18_Witness ==
    /\ PlanCompiled
    /\ statement.v = CompileStatements[1]
    /\ Cardinality(AggregatedSourceIds) = 1
    /\ queryplan.self.next_source_id = 2
    /\ {n.k : n \in GroupedNodes} = {"TempGroupBy", "AggregateOp", "CountAll"}
    /\ \A n \in GroupedNodes : n.source_id = 1

(***************************************************************************)
(* The aggregate functions (queryplan/execute/aggregate.rs).  An f64 is    *)
(* the rational it stands for, <<n, d>> in lowest terms with d > 0; the    *)
(* rounding of f64 arithmetic is not modelled.                             *)
(***************************************************************************)
RECURSIVE Gcd(_, _)
Gcd(m, n) == IF n = 0 THEN m ELSE Gcd(n, m % n)

Abs(n) == IF n < 0 THEN -n ELSE n

Ratio(n, d) == <<n \div Gcd(Abs(n), d), d \div Gcd(Abs(n), d)>>

AddF64(f, g) == Ratio(f[1] * g[2] + g[1] * f[2], f[2] * g[2])

from_f64(value) == Float(value[1], value[2])

to_f64(self) ==
    LET num(c) == IF c.k = "Some" /\ c.v.t = "Float" THEN Ok(Ratio(c.v.v[1], c.v.v[2]))
                  ELSE IF c.k = "Panic" THEN Panic
                  ELSE Err
    IN  num(cast(self, F64))

from_u64(value) == UnsignedInteger(value)

AggregateOps == {"Count", "Avg", "Sum", "Min", "Max"}

get_aggregate_function(op) ==
    CASE op = "Count" -> [k |-> "Count", count |-> 0]
      [] op = "Avg" -> [k |-> "Avg", sum |-> <<0, 1>>, count |-> 0]
      [] op = "Sum" -> [k |-> "Sum", sum |-> <<0, 1>>, count |-> 0]
      [] op = "Min" -> [k |-> "Min", value |-> None]
      [] op = "Max" -> [k |-> "Max", value |-> None]

\* Min::feed and Max::feed: the value replaces the kept one when compare
\* answers Some(hit).
feed_extremum(self, value, hit) ==
    LET set(c) == IF c.k = "Panic" THEN Panic
                  ELSE IF c.k = "Some" /\ c.v = hit THEN [self EXCEPT !.value = Some(value)]
                  ELSE self
    IN  IF is_null(value) THEN self
        ELSE IF self.value.k = "Some" THEN set(compare(value, self.value.v))
        ELSE [self EXCEPT !.value = Some(value)]

\* A feed whose Count counts the NULLs too.
feed_counting_nulls(self, value) ==
    CASE self.k = "Count" -> [self EXCEPT !.count = @ + 1]
      [] self.k \in {"Avg", "Sum"} ->
            LET added(f) == IF f.k # "Ok" THEN Panic
                            ELSE [self EXCEPT !.sum = AddF64(@, f.v), !.count = @ + 1]
            IN  IF is_null(value) THEN self ELSE added(to_f64(value))
      [] self.k = "Min" -> feed_extremum(self, value, -1)
      [] self.k = "Max" -> feed_extremum(self, value, 1)

\* AggregateFunction::feed; to_f64(..).unwrap() panics on a value that is
\* no number.
feed(self, value) ==
    CASE self.k = "Count" -> IF is_null(value) THEN self ELSE [self EXCEPT !.count = @ + 1]
      [] self.k \in {"Avg", "Sum"} ->
            LET added(f) == IF f.k # "Ok" THEN Panic
                            ELSE [self EXCEPT !.sum = AddF64(@, f.v), !.count = @ + 1]
            IN  IF is_null(value) THEN self ELSE added(to_f64(value))
      [] self.k = "Min" -> feed_extremum(self, value, -1)
      [] self.k = "Max" -> feed_extremum(self, value, 1)

\* AggregateFunction::finish
finish(self) ==
    CASE self.k = "Count" -> from_u64(self.count)
      [] self.k = "Avg" ->
            IF self.count = 0 THEN null
            ELSE from_f64(Ratio(self.sum[1], self.sum[2] * self.count))
      [] self.k = "Sum" -> IF self.count = 0 THEN null ELSE from_f64(self.sum)
      [] self.k \in {"Min", "Max"} ->
            IF self.value.k = "Some" THEN self.value.v ELSE null

(***************************************************************************)
(* SpecAggregate: one aggregate function fed a sequence of values and      *)
(* finished.  va is the sequence fed so far, vres the function.            *)
(***************************************************************************)
MaxFed == 3         \* longest sequence of values fed to an aggregate

FedValues ==
    << Null, SignedInteger(-1), SignedInteger(2), UnsignedInteger(1), Float(1, 2),
       Float(-3, 2), Bytes(<<>>), Bytes(<<0>>), StringLiteral(<<65>>) >>

InitAggregate ==
    /\ va = <<>>
    /\ vb = Null
    /\ vc = Null
    /\ vop = "none"
    /\ vres \in {get_aggregate_function(op) : op \in AggregateOps}
    /\ tempdb = NoTables
    /\ statement = NoStmt
    /\ queryplan = None
    /\ outcome = None

Feed ==
    \E i \in 1..Len(FedValues) :
        /\ vop \in {"none", "feed"}
        /\ vres.k # "Panic"
        /\ Len(va) < MaxFed
        /\ vop' = "feed"
        /\ va' = Append(va, FedValues[i])
        /\ vres' = feed(vres, FedValues[i])
        /\ UNCHANGED <<vb, vc, tempdb, statement, queryplan, outcome>>

Finish ==
    /\ vop \in {"none", "feed"}
    /\ vres.k # "Panic"
    /\ vop' = "finish"
    /\ outcome' = finish(vres)
    /\ UNCHANGED <<va, vb, vc, vres, tempdb, statement, queryplan>>

NextAggregate == Feed \/ Finish

SpecAggregate == InitAggregate /\ [][NextAggregate]_vars

\* The function of an op fed a whole sequence.
RECURSIVE FeedAll(_, _)
FeedAll(self, values) ==
    IF values = <<>> \/ self.k = "Panic" THEN self
    ELSE FeedAll(feed(self, Head(values)), Tail(values))

NonNull(values) == SelectSeq(values, LAMBDA value : value.t # "Null")

IsNumber(value) == value.t \in {"SignedInteger", "UnsignedInteger", "Float"}

\* The sum of numbers, as a rational.
RECURSIVE SumOf(_)
SumOf(values) ==
    IF values = <<>> THEN <<0, 1>>
    ELSE LET number(value) ==
                IF value.t = "Float" THEN <<value.v[1], value.v[2]>> ELSE <<value.v[1], 1>>
         IN  AddF64(number(Head(values)), SumOf(Tail(values)))

\* C19: NULLs fed to an aggregate do not change what it finishes with; with
\* no non-null value Count finishes with UnsignedInteger(0) and Sum, Avg,
\* Min and Max with Null; otherwise Count is the number of non-null values,
\* and for numbers Sum is their sum and Avg their sum divided by their
\* count, both Float.
C19_AggregatesSkipNull ==
    vop = "finish" =>
        /\ FeedAll(get_aggregate_function(vres.k), NonNull(va)) = vres
        /\ vres.k = "Count" => outcome = UnsignedInteger(Len(NonNull(va)))
        /\ (vres.k # "Count" /\ NonNull(va) = <<>>) => outcome = Null
        /\ (/\ vres.k \in {"Sum", "Avg"}
            /\ NonNull(va) # <<>>
            /\ \A i \in 1..Len(va) : IsNumber(va[i]) \/ va[i].t = "Null") =>
                /\ outcome.t = "Float"
                /\ outcome.v = IF vres.k = "Sum" THEN SumOf(NonNull(va))
                               ELSE Ratio(SumOf(NonNull(va))[1],
                                          SumOf(NonNull(va))[2] * Len(NonNull(va)))

\* Avg over -1, NULL and 2: 1/2.
C19_Witness ==
    /\ vop = "finish"
    /\ vres.k = "Avg"
    /\ va = <<SignedInteger(-1), Null, SignedInteger(2)>>
    /\ outcome = Float(1, 2)

Reorderings(n) == {p \in [1..n -> 1..n] : \A i, j \in 1..n : p[i] = p[j] => i = j}

\* C20: Min finishes with a fed non-null value that no fed non-null value
\* compares less than, Max with one that none compares greater than, and
\* neither depends on the order in which the values were fed.
C20_ExtremumWhateverTheOrder ==
    (vop = "finish" /\ vres.k \in {"Min", "Max"} /\ NonNull(va) # <<>>) =>
        /\ \E i \in 1..Len(va) : va[i] = outcome /\ va[i].t # "Null"
        /\ \A i \in 1..Len(va) :
                va[i].t # "Null" =>
                    compare(va[i], outcome) # Some(IF vres.k = "Min" THEN -1 ELSE 1)
        /\ \A p \in Reorderings(Len(va)) :
                finish(FeedAll(get_aggregate_function(vres.k),
                               [i \in 1..Len(va) |-> va[p[i]]])) = outcome

(***************************************************************************)
(* The pagers (pager.rs, pagermemory.rs, pagerstream.rs).  Only the page   *)
(* ids are kept: PagerMemory is the key set of `pages`, next_page_id and   *)
(* the number of maps in unused_pages; PagerStream is page_count.  `io`    *)
(* tells whether the mmap, or the seek and write, of the call succeed.     *)
(***************************************************************************)
PagerMemory_new ==
    [kind |-> "Memory", pages |-> {}, next_page_id |-> 0, unused_pages |-> 0]

\* PagerStream::create leaves the header page alone in the stream; open
\* counts the pages of the stream, the header page included.
PagerStream_open(page_count) == [kind |-> "Stream", page_count |-> page_count]

PagerMemory_check_page_id(self, page_id) ==
    IF page_id \in self.pages THEN Ok(<<>>) ELSE Err

PagerStream_check_page_id(self, page_id) ==
    IF page_id = 0 \/ page_id >= self.page_count THEN Err ELSE Ok(<<>>)

\* [self |-> the pager afterwards, res |-> Ok(page_id) or Err]
PagerMemory_new_page_uninitialized(self, io) ==
    IF self.unused_pages = 0 /\ ~io THEN [self |-> self, res |-> Err]
    ELSE IF self.next_page_id \in self.pages THEN [self |-> self, res |-> Panic]
    ELSE [self |-> [self EXCEPT !.unused_pages = IF @ > 0 THEN @ - 1 ELSE 0,
                                !.pages = @ \cup {self.next_page_id},
                                !.next_page_id = @ + 1],
          res |-> Ok(self.next_page_id)]

PagerStream_new_page_uninitialized(self, io) ==
    IF ~io THEN [self |-> self, res |-> Err]
    ELSE [self |-> [self EXCEPT !.page_count = @ + 1], res |-> Ok(self.page_count)]

PagerMemory_mark_page_as_removed(self, page_id) ==
    IF page_id \in self.pages
    THEN [self |-> [self EXCEPT !.pages = @ \ {page_id}, !.unused_pages = @ + 1],
          res |-> Ok(<<>>)]
    ELSE [self |-> self, res |-> Err]

\* TODO: implement
PagerStream_mark_page_as_removed(self, page_id) == [self |-> self, res |-> Ok(<<>>)]

check_page_id(self, page_id) ==
    IF self.kind = "Memory" THEN PagerMemory_check_page_id(self, page_id)
    ELSE PagerStream_check_page_id(self, page_id)

\* Pager::new_page: new_page_uninitialized with a closure that zeroes the
\* buffer first.
new_page(self, io) ==
    IF self.kind = "Memory" THEN PagerMemory_new_page_uninitialized(self, io)
    ELSE PagerStream_new_page_uninitialized(self, io)

mark_page_as_removed(self, page_id) ==
    IF self.kind = "Memory" THEN PagerMemory_mark_page_as_removed(self, page_id)
    ELSE PagerStream_mark_page_as_removed(self, page_id)

(***************************************************************************)
(* SpecPager: one pager under new_page and mark_page_as_removed.  va is    *)
(* the pager, vb the ids new_page returned, in order, vc the returned ids  *)
(* not removed since, vres the result of the last call.                    *)
(***************************************************************************)
MaxPages == 4       \* pages allocated by one pager

InitPager ==
    /\ va \in {PagerMemory_new, PagerStream_open(1), PagerStream_open(2)}
    /\ vb = <<>>
    /\ vc = {}
    /\ vop = "none"
    /\ vres = None
    /\ tempdb = NoTables
    /\ statement = NoStmt
    /\ queryplan = None
    /\ outcome = None

NewPage ==
    \E io \in BOOLEAN :
        LET returned(r) ==
                /\ va' = r.self
                /\ vres' = r.res
                /\ vb' = IF r.res.k = "Ok" THEN Append(vb, r.res.v) ELSE vb
                /\ vc' = IF r.res.k = "Ok" THEN vc \cup {r.res.v} ELSE vc
        IN  /\ Len(vb) < MaxPages
            /\ vop' = "new_page"
            /\ returned(new_page(va, io))
            /\ UNCHANGED <<tempdb, statement, queryplan, outcome>>

MarkPageAsRemoved ==
    \E page_id \in 0..(MaxPages + 2) :
        LET returned(r) ==
                /\ va' = r.self
                /\ vres' = r.res
                /\ vc' = IF r.res.k = "Ok" THEN vc \ {page_id} ELSE vc
        IN  /\ vop' = "mark_page_as_removed"
            /\ returned(mark_page_as_removed(va, page_id))
            /\ UNCHANGED <<vb, tempdb, statement, queryplan, outcome>>

NextPager == NewPage \/ MarkPageAsRemoved

SpecPager == InitPager /\ [][NextPager]_vars

\* C25: for both pagers and any calls of new_page and mark_page_as_removed,
\* every id new_page returns differs from every id it returned before and
\* is not 0, and a returned id passes check_page_id until it is removed.
C25_PageIdsUniqueAndNotZero ==
    /\ \A i, j \in 1..Len(vb) : i # j => vb[i] # vb[j]
    /\ \A i \in 1..Len(vb) : vb[i] # 0
    /\ \A page_id \in vc : check_page_id(va, page_id) = Ok(<<>>)

(***************************************************************************)
(* The lexer (sqlsyntax/lexer.rs).  A character is its code, a token is    *)
(* [t |-> its name, v |-> its string], the Lexer is state, string_buffer   *)
(* and tokens.                                                             *)
(***************************************************************************)
Token(t) == [t |-> t, v |-> <<>>]

TokenWith(t, v) == [t |-> t, v |-> v]

character_to_token(c) ==
    CASE c = 61 -> Some(Token("Equal"))
      [] c = 60 -> Some(Token("LessThan"))
      [] c = 62 -> Some(Token("GreaterThan"))
      [] c = 43 -> Some(Token("Plus"))
      [] c = 45 -> Some(Token("Minus"))
      [] c = 40 -> Some(Token("LeftParen"))
      [] c = 41 -> Some(Token("RightParen"))
      [] c = 91 -> Some(Token("LeftBracket"))
      [] c = 93 -> Some(Token("RightBracket"))
      [] c = 46 -> Some(Token("Dot"))
      [] c = 44 -> Some(Token("Comma"))
      [] c = 59 -> Some(Token("Semicolon"))
      [] c = 38 -> Some(Token("Ampersand"))
      [] c = 124 -> Some(Token("Pipe"))
      [] c = 42 -> Some(Token("Asterisk"))
      [] c = 47 -> Some(Token("ForwardSlash"))
      [] c = 63 -> Some(Token("PreparedStatementPlaceholder"))
      [] OTHER -> None

\* The words of word_to_token's match, with their tokens.
Keywords ==
    << <<"Select", <<115, 101, 108, 101, 99, 116>>>>,
       <<"From", <<102, 114, 111, 109>>>>,
       <<"Where", <<119, 104, 101, 114, 101>>>>,
       <<"Group", <<103, 114, 111, 117, 112>>>>,
       <<"Having", <<104, 97, 118, 105, 110, 103>>>>,
       <<"By", <<98, 121>>>>,
       <<"Limit", <<108, 105, 109, 105, 116>>>>,
       <<"Distinct", <<100, 105, 115, 116, 105, 110, 99, 116>>>>,
       <<"Order", <<111, 114, 100, 101, 114>>>>,
       <<"Asc", <<97, 115, 99>>>>,
       <<"Desc", <<100, 101, 115, 99>>>>,
       <<"As", <<97, 115>>>>,
       <<"Join", <<106, 111, 105, 110>>>>,
       <<"Inner", <<105, 110, 110, 101, 114>>>>,
       <<"Outer", <<111, 117, 116, 101, 114>>>>,
       <<"Left", <<108, 101, 102, 116>>>>,
       <<"Right", <<114, 105, 103, 104, 116>>>>,
       <<"On", <<111, 110>>>>,
       <<"Insert", <<105, 110, 115, 101, 114, 116>>>>,
       <<"Into", <<105, 110, 116, 111>>>>,
       <<"Values", <<118, 97, 108, 117, 101, 115>>>>,
       <<"Update", <<117, 112, 100, 97, 116, 101>>>>,
       <<"Delete", <<100, 101, 108, 101, 116, 101>>>>,
       <<"Create", <<99, 114, 101, 97, 116, 101>>>>,
       <<"Table", <<116, 97, 98, 108, 101>>>>,
       <<"Index", <<105, 110, 100, 101, 120>>>>,
       <<"Constraint", <<99, 111, 110, 115, 116, 114, 97, 105, 110, 116>>>>,
       <<"Primary", <<112, 114, 105, 109, 97, 114, 121>>>>,
       <<"Key", <<107, 101, 121>>>>,
       <<"Unique", <<117, 110, 105, 113, 117, 101>>>>,
       <<"References", <<114, 101, 102, 101, 114, 101, 110, 99, 101, 115>>>>,
       <<"And", <<97, 110, 100>>>>,
       <<"Or", <<111, 114>>>>,
       <<"Between", <<98, 101, 116, 119, 101, 101, 110>>>>,
       <<"In", <<105, 110>>>>,
       <<"Is", <<105, 115>>>>,
       <<"Not", <<110, 111, 116>>>>,
       <<"Null", <<110, 117, 108, 108>>>>,
       <<"Explain", <<101, 120, 112, 108, 97, 105, 110>>>> >>

word_to_token(word) ==
    LET word_cmp == [i \in 1..Len(word) |-> to_ascii_lowercase(word[i])]
        hits == {i \in 1..Len(Keywords) : Keywords[i][2] = word_cmp}
    IN  IF hits = {} THEN TokenWith("Ident", word)
        ELSE Token(Keywords[CHOOSE i \in hits : TRUE][1])

NoState == [k |-> "NoState", flag |-> FALSE, first |-> 0]
Word == [k |-> "Word", flag |-> FALSE, first |-> 0]
Backtick == [k |-> "Backtick", flag |-> FALSE, first |-> 0]
Apostrophe(escaping) == [k |-> "Apostrophe", flag |-> escaping, first |-> 0]
Number(decimal) == [k |-> "Number", flag |-> decimal, first |-> 0]
OperatorDisambiguate(first) == [k |-> "OperatorDisambiguate", flag |-> FALSE, first |-> first]
LineComment == [k |-> "LineComment", flag |-> FALSE, first |-> 0]
BlockComment(was_prev_char_asterisk) ==
    [k |-> "BlockComment", flag |-> was_prev_char_asterisk, first |-> 0]

Lexer == [state |-> NoState, string_buffer |-> <<>>, tokens |-> <<>>]

IsWordStart(c) == c \in 97..122 \/ c \in 65..90 \/ c = 95

\* Ok(the lexer in its next state) or Err (an unknown character).
no_state(self, c) ==
    LET other(token) ==
            IF token.k = "None" THEN Err
            ELSE IF token.v.t \in {"LessThan", "GreaterThan", "Minus", "Pipe", "ForwardSlash"}
            THEN Ok([self EXCEPT !.state = OperatorDisambiguate(c)])
            ELSE Ok([self EXCEPT !.tokens = Append(@, token.v), !.state = NoState])
    IN  CASE IsWordStart(c) ->
                Ok([self EXCEPT !.string_buffer = Append(@, c), !.state = Word])
          [] c = 96 -> Ok([self EXCEPT !.state = Backtick])
          [] c = 39 -> Ok([self EXCEPT !.state = Apostrophe(FALSE)])
          [] c \in 48..57 ->
                Ok([self EXCEPT !.string_buffer = Append(@, c), !.state = Number(FALSE)])
          [] c \in {32, 9, 10} -> Ok([self EXCEPT !.state = NoState])
          [] OTHER -> other(character_to_token(c))

\* no_state(c).unwrap()
NoStateUnwrap(self, c) ==
    LET unwrap(r) == IF r.k = "Ok" THEN r.v ELSE Panic
    IN  unwrap(no_state(self, c))

\* The string buffer moved out into a token.
PushBuffer(self, t) ==
    [self EXCEPT !.tokens = Append(@, IF t = "Word" THEN word_to_token(self.string_buffer)
                                      ELSE TokenWith(t, self.string_buffer)),
                 !.string_buffer = <<>>]

\* A block comment that closes on any '/'.
block_comment_closing_on_slash(self, c) ==
    IF c = Some(47) THEN [self EXCEPT !.state = NoState]
    ELSE [self EXCEPT !.state = BlockComment(c = Some(42))]

\* The BlockComment arm of feed_character.
block_comment(self, c) ==
    IF self.state.flag /\ c = Some(47) THEN [self EXCEPT !.state = NoState]
    ELSE [self EXCEPT !.state = BlockComment(c = Some(42))]

\* Lexer::feed_character; c is Some(character) or None at the end.
feed_character(self, c) ==
    CASE self.state.k = "NoState" ->
            IF c.k = "Some" THEN NoStateUnwrap(self, c.v) ELSE [self EXCEPT !.state = NoState]
      [] self.state.k = "Word" ->
            IF c.k = "None" THEN [PushBuffer(self, "Word") EXCEPT !.state = NoState]
            ELSE IF IsWordStart(c.v) \/ c.v \in 48..57
            THEN [self EXCEPT !.string_buffer = Append(@, c.v)]
            ELSE NoStateUnwrap(PushBuffer(self, "Word"), c.v)
      [] self.state.k = "Backtick" ->
            IF c.k = "None" THEN Panic
            ELSE IF c.v = 96 THEN [PushBuffer(self, "Ident") EXCEPT !.state = NoState]
            ELSE [self EXCEPT !.string_buffer = Append(@, c.v)]
      [] self.state.k = "Apostrophe" ->
            IF c.k = "None" THEN Panic
            ELSE IF ~self.state.flag /\ c.v = 39
            THEN [PushBuffer(self, "StringLiteral") EXCEPT !.state = NoState]
            ELSE IF ~self.state.flag /\ c.v = 92
            THEN [self EXCEPT !.state = Apostrophe(TRUE)]
            ELSE [self EXCEPT !.string_buffer = Append(@, c.v), !.state = Apostrophe(FALSE)]
      [] self.state.k = "Number" ->
            IF c.k = "None" THEN [PushBuffer(self, "Number") EXCEPT !.state = NoState]
            ELSE IF c.v \in 48..57 THEN [self EXCEPT !.string_buffer = Append(@, c.v)]
            ELSE IF c.v = 46 /\ ~self.state.flag
            THEN [self EXCEPT !.string_buffer = Append(@, c.v), !.state = Number(TRUE)]
            ELSE NoStateUnwrap(PushBuffer(self, "Number"), c.v)
      [] self.state.k = "OperatorDisambiguate" ->
            LET first == self.state.first
                push(t) == [self EXCEPT !.tokens = Append(@, Token(t)), !.state = NoState]
                single == [self EXCEPT !.tokens = Append(@, character_to_token(first).v)]
            IN  IF c.k = "None" THEN [single EXCEPT !.state = NoState]
                ELSE CASE first = 60 /\ c.v = 62 -> push("NotEqual")
                       [] first = 60 /\ c.v = 61 -> push("LessThanOrEqual")
                       [] first = 62 /\ c.v = 61 -> push("GreaterThanOrEqual")
                       [] first = 124 /\ c.v = 124 -> push("DoublePipe")
                       [] first = 45 /\ c.v = 45 -> [self EXCEPT !.state = LineComment]
                       [] first = 47 /\ c.v = 42 -> [self EXCEPT !.state = BlockComment(FALSE)]
                       [] OTHER -> NoStateUnwrap(single, c.v)
      [] self.state.k = "LineComment" ->
            IF c = Some(10) THEN [self EXCEPT !.state = NoState] ELSE self
      [] self.state.k = "BlockComment" -> block_comment(self, c)

\* The loop of parse over the characters.
RECURSIVE FeedAllCharacters(_, _)
FeedAllCharacters(lexer, sql) ==
    IF lexer = Panic THEN Panic
    ELSE IF sql = <<>> THEN lexer
    ELSE FeedAllCharacters(feed_character(lexer, Some(Head(sql))), Tail(sql))

\* parse: Ok(the tokens) or Panic.
parse(sql) ==
    LET last(lexer) == IF lexer = Panic THEN Panic ELSE Ok(lexer.tokens)
        fed(lexer) == IF lexer = Panic THEN Panic ELSE last(feed_character(lexer, None))
    IN  fed(FeedAllCharacters(Lexer, sql))

(***************************************************************************)
(* SpecValue: the value operations applied to operands drawn from every    *)
(* variant.                                                                *)
(***************************************************************************)
ByteAlphabet == {0, 1}
CharAlphabet == {65, 97}        \* 'A', 'a'

Values ==
    {Null}
    \cup {Bytes(b) : b \in SeqsUpTo(ByteAlphabet, MaxLen)}
    \cup {StringLiteral(s) : s \in SeqsUpTo(CharAlphabet, MaxLen) \cup {NULLStr}}
    \cup {SignedInteger(n) : n \in -MaxAbs..MaxAbs}
    \cup {UnsignedInteger(n) : n \in 0..MaxAbs}
    \cup {Float(n, 1) : n \in -MaxAbs..MaxAbs}
    \cup {Float(1, 2), Float(-1, 2)}

InitValue ==
    /\ va \in Values
    /\ vb \in Values
    /\ vc \in Values
    /\ vop = "none"
    /\ vres = None
    /\ tempdb = NoTables
    /\ statement = NoStmt
    /\ queryplan = None
    /\ outcome = None

\* compare and the six comparisons derived from it, on the drawn operands.
Compare ==
    /\ vop' = "compare"
    /\ vres' = [ab |-> compare(va, vb), ba |-> compare(vb, va),
                bc |-> compare(vb, vc), ac |-> compare(va, vc),
                equals |-> equals(va, vb),
                not_equals |-> not_equals(va, vb),
                less_than |-> less_than(va, vb),
                greater_than |-> greater_than(va, vb),
                less_than_or_equal |-> less_than_or_equal(va, vb),
                greater_than_or_equal |-> greater_than_or_equal(va, vb)]
    /\ UNCHANGED <<va, vb, vc, tempdb, statement, queryplan, outcome>>

And ==
    /\ vop' = "and"
    /\ vres' = and(va, vb)
    /\ UNCHANGED <<va, vb, vc, tempdb, statement, queryplan, outcome>>

Or ==
    /\ vop' = "or"
    /\ vres' = or(va, vb)
    /\ UNCHANGED <<va, vb, vc, tempdb, statement, queryplan, outcome>>

Not ==
    /\ vop' = "not"
    /\ vres' = not(va)
    /\ UNCHANGED <<va, vb, vc, tempdb, statement, queryplan, outcome>>

NextValue == Compare \/ And \/ Or \/ Not

SpecValue == InitValue /\ [][NextValue]_vars

(***************************************************************************)
(* C8: whenever at least one operand is Null, compare returns None and     *)
(* equals, not_equals, less_than, greater_than, less_than_or_equal and     *)
(* greater_than_or_equal all return Null, whatever the other operand's     *)
(* variant and whichever side the Null is on.                              *)
(* StringLiteral.compare(Null) casts the Null to the string "NULL" and     *)
(* orders the two strings, so the statement fails.                         *)
(***************************************************************************)
C8_NullComparesToNone ==
    (vop = "compare" /\ (va = Null \/ vb = Null)) =>
        /\ vres.ab = None
        /\ vres.ba = None
        /\ vres.equals = Null
        /\ vres.not_equals = Null
        /\ vres.less_than = Null
        /\ vres.greater_than = Null
        /\ vres.less_than_or_equal = Null
        /\ vres.greater_than_or_equal = Null

(***************************************************************************)
(* C9: on non-null values of one variant compare never returns None and is *)
(* a total order: one of -1/0/+1, 0 exactly for equal values,              *)
(* antisymmetric, transitive; Bytes of different lengths included.         *)
(* Bytes of different lengths do not cast to each other's ByteFixed(n)     *)
(* type, so compare returns None for them and the statement fails.         *)
(***************************************************************************)
IsSome(c) == c.k = "Some"

C9_TotalOrderPerVariant ==
    (vop = "compare" /\ va # Null /\ va.t = vb.t /\ vb.t = vc.t) =>
        /\ IsSome(vres.ab) /\ IsSome(vres.ba) /\ IsSome(vres.bc) /\ IsSome(vres.ac)
        /\ vres.ab.v \in {-1, 0, 1}
        /\ (vres.ab.v = 0) <=> (va = vb)
        /\ vres.ab.v = -vres.ba.v
        /\ (vres.ab.v <= 0 /\ vres.bc.v <= 0) => vres.ac.v <= 0
        /\ (vres.ab.v < 0 /\ vres.bc.v <= 0) => vres.ac.v < 0

(***************************************************************************)
(* C10: the 3VL code of and(a, b) is the minimum of the operands' codes,   *)
(* of or(a, b) the maximum, of not(a) the negation; the result is always   *)
(* UnsignedInteger(0), UnsignedInteger(1) or Null (from_3vl never gets a   *)
(* code outside -1..1, which would panic).                                 *)
(***************************************************************************)
Min3(x, y) == CHOOSE m \in {x, y} : m <= x /\ m <= y
Max3(x, y) == CHOOSE m \in {x, y} : m >= x /\ m >= y
Kleene == {UnsignedInteger(0), UnsignedInteger(1), Null}

C10_KleeneLogic ==
    /\ vop \in {"and", "or", "not"} => vres \in Kleene
    /\ vop = "and" => to_3vl(vres) = Min3(to_3vl(va), to_3vl(vb))
    /\ vop = "or" => to_3vl(vres) = Max3(to_3vl(va), to_3vl(vb))
    /\ vop = "not" => to_3vl(vres) + to_3vl(va) = 0

\* Null AND false is false, Null AND true is Null: both reached.
C10_Witness ==
    /\ vop = "and"
    /\ va = Null
    /\ to_3vl(vb) = -1
    /\ vres = UnsignedInteger(0)
(***************************************************************************)
(* What the statements of a state say about its plan and its rows.         *)
(***************************************************************************)
Executor == ExecuteQueryPlan(tempdb, 0)

Compiled == statement.k = "Select" /\ queryplan.k = "Ok"

TableNamed(table_name) == find_table_by_name(tempdb, Identifier_new(table_name).v).v

\* The rows a source of a FROM list holds, in the order a scan visits them.
SourceRows(ast_table_or_subquery) ==
    IF ast_table_or_subquery.k = "Subquery"
    THEN tempdb_select(tempdb, 0, ast_table_or_subquery.subquery).res.rows
    ELSE scan_table(TableNamed(ast_table_or_subquery.table.table_name)).v

\* The i-th node down the chain of sources of a plan.
RECURSIVE ChainNode(_, _)
ChainNode(expr, i) ==
    IF i = 1 THEN expr
    ELSE ChainNode(IF expr.k = "Map" THEN expr.yield_out_fn ELSE expr.yield_fn, i - 1)

RECURSIVE Product(_, _)
Product(source_rows, i) ==
    IF i > Len(source_rows) THEN 1
    ELSE Len(source_rows[i]) * Product(source_rows, i + 1)

\* The c-th combination (from 0) of one row per source, the last source
\* varying fastest.
Combination(source_rows, c) ==
    [i \in 1..Len(source_rows) |->
        source_rows[i][((c \div Product(source_rows, i + 1)) % Len(source_rows[i])) + 1]]

RECURSIVE Flatten(_)
Flatten(seqs) == IF seqs = <<>> THEN <<>> ELSE Head(seqs) \o Flatten(Tail(seqs))

\* The source ids of the ColumnFields anywhere inside an expression.
RECURSIVE SourceIdsIn(_)
SourceIdsIn(expr) ==
    CASE expr.k = "ColumnField" -> {expr.source_id}
      [] expr.k = "Scan" -> SourceIdsIn(expr.yield_fn)
      [] expr.k = "Map" -> SourceIdsIn(expr.yield_in_fn) \cup SourceIdsIn(expr.yield_out_fn)
      [] expr.k = "TempGroupBy" ->
            SourceIdsIn(expr.yield_in_fn) \cup SourceIdsIn(expr.yield_out_fn)
            \cup UNION {SourceIdsIn(expr.group_by_values[i]) :
                            i \in 1..Len(expr.group_by_values)}
      [] expr.k = "LeftJoin" ->
            SourceIdsIn(expr.yield_in_fn) \cup SourceIdsIn(expr.predicate)
            \cup SourceIdsIn(expr.yield_out_fn)
      [] expr.k = "Yield" -> UNION {SourceIdsIn(expr.fields[i]) : i \in 1..Len(expr.fields)}
      [] expr.k = "If" ->
            UNION {SourceIdsIn(expr.chains[i].predicate) \cup SourceIdsIn(expr.chains[i].yield_fn) :
                        i \in 1..Len(expr.chains)}
            \cup (IF expr.else_.k = "Some" THEN SourceIdsIn(expr.else_.v) ELSE {})
      [] expr.k = "UnaryOp" -> SourceIdsIn(expr.expr)
      [] expr.k = "BinaryOp" -> SourceIdsIn(expr.lhs) \cup SourceIdsIn(expr.rhs)
      [] expr.k = "AggregateOp" -> SourceIdsIn(expr.value)
      [] OTHER -> {}

\* The Yield a chain of sources ends in.
RECURSIVE InnermostYield(_)
InnermostYield(expr) ==
    CASE expr.k = "Scan" -> InnermostYield(expr.yield_fn)
      [] expr.k = "Map" -> InnermostYield(expr.yield_out_fn)
      [] expr.k = "LeftJoin" -> InnermostYield(expr.yield_out_fn)
      [] expr.k = "If" -> InnermostYield(expr.chains[1].yield_fn)
      [] OTHER -> expr

Grouped == Compiled /\ queryplan.v.expr.k = "TempGroupBy"

\* The sources of FROM a TempGroupBy groups: its yield_in_fn yields every
\* column of each of them.
PreGroupSources == SourceIdsIn(InnermostYield(queryplan.v.expr.yield_in_fn))

\* C1: in the TempGroupBy of a compiled SELECT, no ColumnField of
\* yield_out_fn, at any depth, names a source of the FROM list that was
\* grouped: each was rewritten to the aggregated source.
C1_NoPreGroupColumnAfterRemap ==
    Grouped => SourceIdsIn(queryplan.v.expr.yield_out_fn) \cap PreGroupSources = {}

IsKeyAndAggregate(select_stmt) ==
    /\ Len(select_stmt.group_by) = 1
    /\ select_stmt.having.k = "None"
    /\ Len(select_stmt.result_columns) = 2
    /\ select_stmt.result_columns[1].k = "Expr"
    /\ select_stmt.result_columns[1].expr = select_stmt.group_by[1]
    /\ select_stmt.result_columns[2].k = "Expr"
    /\ select_stmt.result_columns[2].expr.k = "FunctionCall"

\* C2: SELECT k, agg(v) FROM s GROUP BY k over a table that holds rows
\* executes without an error and delivers rows.
C2_GroupKeyAndAggregateSucceeds ==
    (/\ Grouped
     /\ IsKeyAndAggregate(statement.v)
     /\ SourceRows(statement.v.from.v[1]) # <<>>)
        => outcome.k = "Select" /\ outcome.rows # <<>>

\* The key tuples of the rows the TempGroupBy of the plan takes in.
GroupKeys ==
    LET keys(in) ==
            {resolve_values(Executor, queryplan.v.expr.group_by_values,
                            <<Row(queryplan.v.expr.source_id, in.rows[i])>>, <<>>) :
                i \in 1..Len(in.rows)}
    IN  keys(execute(Executor, queryplan.v.expr.yield_in_fn, <<>>))

\* C3: a SELECT with GROUP BY and no HAVING, whose keys all evaluate,
\* delivers as many rows as its input has distinct key tuples.
C3_OneRowPerDistinctKey ==
    (/\ Grouped
     /\ statement.v.group_by # <<>>
     /\ statement.v.having.k = "None"
     /\ \A key \in GroupKeys : key.k = "Ok")
        => Len(outcome.rows) = Cardinality(GroupKeys)

\* C4: a SELECT with an aggregate call and no GROUP BY delivers exactly one
\* row, whatever the table holds, also when it holds nothing.
C4_AggregateWithoutGroupByOneRow ==
    (Grouped /\ statement.v.group_by = <<>>)
        => outcome.k = "Select" /\ Len(outcome.rows) = 1

(***************************************************************************)
(* A comma-separated FROM list.                                            *)
(***************************************************************************)
CrossRows ==
    [i \in 1..Len(statement.v.from.v) |-> SourceRows(statement.v.from.v[i])]

\* The c-th combination bound to the source ids of the plan, first source
\* of FROM first.
CrossSource(c) ==
    [i \in 1..Len(statement.v.from.v) |->
        Row(ChainNode(queryplan.v.expr, i).source_id, Combination(CrossRows, c)[i])]

\* What the chain of sources of the plan wraps: the WHERE test, if any,
\* around the Yield of the select list.
CrossBody == ChainNode(queryplan.v.expr, Len(statement.v.from.v) + 1)

\* The rows of the combinations from the c-th on: a combination gives one
\* row when WHERE is absent or its three-valued truth is +1, and the
\* sequence ends at the first evaluation that fails.
RECURSIVE NestedLoop(_, _, _)
NestedLoop(c, total, delivered) ==
    IF c >= total THEN Delivered("Ok", delivered)
    ELSE LET yielded(columns) ==
                IF columns.k # "Ok" THEN Delivered(columns.k, delivered)
                ELSE NestedLoop(c + 1, total, Append(delivered, columns.v))
             selected(fields) == yielded(resolve_values(Executor, fields, CrossSource(c), <<>>))
             kept(pred_result) ==
                IF pred_result.k # "Ok" THEN Delivered(pred_result.k, delivered)
                ELSE IF to_3vl(pred_result.v) # 1 THEN NestedLoop(c + 1, total, delivered)
                ELSE selected(CrossBody.chains[1].yield_fn.fields)
         IN  IF statement.v.where_expr.k = "Some"
             THEN kept(resolve_value(Executor, CrossBody.chains[1].predicate, CrossSource(c)))
             ELSE selected(CrossBody.fields)

\* C5: a SELECT over a comma-separated FROM list, without aggregates or
\* GROUP BY, delivers the combinations of one row per source in the order of
\* a nested loop with the first source of FROM outermost and each source in
\* rowid order, keeps those whose WHERE is true in three-valued logic, and
\* gives one row per combination kept.
C5_CrossProductInNestedLoopOrder ==
    Compiled =>
        LET same(expected) ==
                /\ outcome.rows = expected.rows
                /\ outcome.k = (IF expected.k = "Ok" THEN "Select" ELSE expected.k)
        IN  same(NestedLoop(0, Product(CrossRows, 1), <<>>))

\* Two sources that hold rows, and a WHERE that keeps some combinations and
\* drops others.
C5_Witness ==
    /\ Compiled
    /\ outcome.k = "Select"
    /\ Len(statement.v.from.v) = 2
    /\ statement.v.where_expr.k = "Some"
    /\ outcome.rows # <<>>
    /\ Len(outcome.rows) < Product(CrossRows, 1)

(***************************************************************************)
(* FROM a LEFT JOIN b ON p.                                                *)
(***************************************************************************)
IsOneLeftJoin ==
    /\ Compiled
    /\ statement.v.from.k = "Join"
    /\ Len(statement.v.from.joins) = 1
    /\ statement.v.from.joins[1].operator = "Left"

LeftJoinNode == queryplan.v.expr.yield_fn

OuterRows == SourceRows(statement.v.from.table)

InnerRows == SourceRows(statement.v.from.joins[1].table)

\* One Null per column of the right-hand table.
NullRow ==
    [i \in 1..get_column_count(TableNamed(statement.v.from.joins[1].table.table.table_name))
        |-> null]

JoinSource(outer_row, right_row) ==
    <<Row(queryplan.v.expr.source_id, outer_row), Row(LeftJoinNode.source_id, right_row)>>

OnResult(outer_row, inner_row) ==
    resolve_value(Executor, LeftJoinNode.predicate, JoinSource(outer_row, inner_row))

\* The inner rows that pass ON for an outer row; the Null row when none does.
RightRows(outer_row) ==
    LET passes(inner_row) == tests_true(OnResult(outer_row, inner_row).v)
        bound(passing) == IF passing = <<>> THEN <<NullRow>> ELSE passing
    IN  bound(SelectSeq(InnerRows, passes))

YieldOut(outer_row, right_row) ==
    execute(Executor, LeftJoinNode.yield_out_fn, JoinSource(outer_row, right_row))

\* Every evaluation of ON and of yield_out_fn below succeeds.
JoinEvaluates ==
    /\ \A o \in 1..Len(OuterRows), i \in 1..Len(InnerRows) :
            OnResult(OuterRows[o], InnerRows[i]).k = "Ok"
    /\ \A o \in 1..Len(OuterRows) :
            \A b \in 1..Len(RightRows(OuterRows[o])) :
                YieldOut(OuterRows[o], RightRows(OuterRows[o])[b]).k = "Ok"

LeftJoinRows ==
    Flatten([o \in 1..Len(OuterRows) |->
                Flatten([b \in 1..Len(RightRows(OuterRows[o])) |->
                            YieldOut(OuterRows[o], RightRows(OuterRows[o])[b]).rows])])

\* C6: for FROM a LEFT JOIN b ON p the plan holds a LeftJoin whose
\* right_rows_if_none is one Null per output column of b; every row of a
\* runs yield_out_fn once per row of b that passes p, and once with the
\* Nulls in place of b's columns when no row of b passes, so that no row of
\* a is lost to the join.
C6_LeftJoinKeepsOuterRows ==
    IsOneLeftJoin =>
        /\ LeftJoinNode.k = "LeftJoin"
        /\ LeftJoinNode.right_rows_if_none = NullRow
        /\ JoinEvaluates => outcome.k = "Select" /\ outcome.rows = LeftJoinRows

\* An outer row with a passing inner row and an outer row with none, both
\* delivered.
C6_Witness ==
    /\ IsOneLeftJoin
    /\ JoinEvaluates
    /\ outcome.k = "Select"
    /\ Len(NullRow) = 2
    /\ \E o \in 1..Len(OuterRows) : RightRows(OuterRows[o]) = <<NullRow>>
    /\ \E o \in 1..Len(OuterRows) : RightRows(OuterRows[o]) # <<NullRow>>
    /\ Len(outcome.rows) >= 2

(***************************************************************************)
(* A subquery used as a value, in a SELECT over one table.                 *)
(***************************************************************************)
\* The Map nodes in value position of an expression, outside other Maps.
RECURSIVE ScalarMaps(_)
ScalarMaps(expr) ==
    CASE expr.k = "Map" -> <<expr>>
      [] expr.k = "UnaryOp" -> ScalarMaps(expr.expr)
      [] expr.k = "BinaryOp" -> ScalarMaps(expr.lhs) \o ScalarMaps(expr.rhs)
      [] OTHER -> <<>>

IsScalarSelect == Compiled /\ queryplan.v.expr.k = "Scan"

SelectListMaps ==
    Flatten([i \in 1..Len(InnermostYield(queryplan.v.expr).fields) |->
                ScalarMaps(InnermostYield(queryplan.v.expr).fields[i])])

WhereMaps ==
    IF queryplan.v.expr.yield_fn.k = "If"
    THEN ScalarMaps(queryplan.v.expr.yield_fn.chains[1].predicate)
    ELSE <<>>

TableRows == SourceRows(statement.v.from.v[1])

ScalarSource(row) == <<Row(queryplan.v.expr.source_id, row)>>

\* resolve_value of a Map against what its yield_in_fn yields.
ScalarHolds(map, source) ==
    LET checked(in, value) ==
            /\ (in.k = "Ok" /\ Len(in.rows) = 1) =>
                    value = resolve_value(Executor, map.yield_out_fn,
                                          Append(source, Row(map.source_id, in.rows[1])))
            /\ (in.k = "Ok" /\ Len(in.rows) # 1) => value = Err
            /\ value.k = "Ok" => (in.k = "Ok" /\ Len(in.rows) = 1)
    IN  checked(execute(Executor, map.yield_in_fn, source),
                resolve_value(Executor, map, source))

\* C7: a Map in value position gives a value only when its yield_in_fn
\* yields exactly one row, and the value is yield_out_fn resolved with the
\* Map's source_id bound to that row; with no row or more than one row it
\* is an execution error, which ends the statement without a result.
C7_ScalarSubqueryExactlyOneRow ==
    IsScalarSelect =>
        /\ \A m \in 1..Len(SelectListMaps \o WhereMaps), r \in 1..Len(TableRows) :
                ScalarHolds((SelectListMaps \o WhereMaps)[m], ScalarSource(TableRows[r]))
        /\ outcome.k = "Select" =>
                \A m \in 1..Len(SelectListMaps), r \in 1..Len(TableRows) :
                    statement.v.where_expr.k = "None" =>
                        Len(execute(Executor, SelectListMaps[m].yield_in_fn,
                                    ScalarSource(TableRows[r])).rows) = 1

\* A correlated subquery that yields one row for one outer row, where it
\* gives a value, and no row for another, where it is an error.
C7_Witness ==
    /\ IsScalarSelect
    /\ SelectListMaps # <<>>
    /\ outcome.k = "Err"
    /\ \E r \in 1..Len(TableRows) :
            /\ Len(execute(Executor, SelectListMaps[1].yield_in_fn,
                           ScalarSource(TableRows[r])).rows) = 1
            /\ resolve_value(Executor, SelectListMaps[1], ScalarSource(TableRows[r])).k = "Ok"
    /\ \E r \in 1..Len(TableRows) :
            /\ execute(Executor, SelectListMaps[1].yield_in_fn,
                       ScalarSource(TableRows[r])) = Delivered("Ok", <<>>)
            /\ resolve_value(Executor, SelectListMaps[1], ScalarSource(TableRows[r])) = Err

(***************************************************************************)
(* SpecBytes: values written to bytes under a DbType and read back         *)
(* (Variant::to_bytes, Variant::from_bytes, byteutils.rs).                 *)
(***************************************************************************)
\* Integers around the limits of the one- and two-byte types.
IntegerSamples == {-32769, -32768, -129, -128, -1, 0, 1, 127, 128, 255, 256, 32767, 32768}

Widths == 1..8

\* The Integer types here are one, two, three and eight bytes wide: a
\* negative pattern cut to four to seven bytes reads back as a number of
\* 2^31 or more, which the model's integers do not hold.
DbTypes ==
    {DbNull, ByteDynamic, F64, DbString}
    \cup {ByteFixed(n) : n \in 0..MaxLen}
    \cup {Integer(signed, bytes) : signed \in BOOLEAN, bytes \in {1, 2, 3, 8}}

BytesOperands ==
    Values
    \cup {SignedInteger(n) : n \in IntegerSamples}
    \cup {UnsignedInteger(n) : n \in IntegerSamples}

InitBytes ==
    /\ va \in BytesOperands
    /\ vb \in BytesOperands
    /\ vc = Null
    /\ vop = "none"
    /\ vres = None
    /\ tempdb = NoTables
    /\ statement = NoStmt
    /\ queryplan = None
    /\ outcome = None

\* to_bytes of va under a DbType, and from_bytes of what it wrote. The
\* operand is one of Values: their conversions to F64 stay inside F64Table.
ToBytes ==
    \E dbtype \in DbTypes :
        LET read(bytes) == IF bytes.k = "Ok" THEN from_bytes(dbtype, bytes.v) ELSE None
        IN  /\ va \in Values
            /\ vop' = "to_bytes"
            /\ vres' = [dbtype |-> dbtype,
                        cast |-> cast(va, dbtype),
                        bytes |-> to_bytes(va, dbtype),
                        back |-> read(to_bytes(va, dbtype))]
            /\ UNCHANGED <<va, vb, vc, tempdb, statement, queryplan, outcome>>

\* Two integers of one variant written by write_sdbinteger or
\* write_udbinteger into buffers of one width, and read back. A u64 above
\* i64::MAX cut to four to seven bytes reads back as a number of 2^31 or
\* more, which the model's integers do not hold: that case is left out.
WriteInteger ==
    \E bytes \in Widths :
        LET signed == va.t = "SignedInteger"
            write(value) == IF signed THEN write_sdbinteger(value, bytes)
                            ELSE write_udbinteger(value, bytes)
            read(buf) == IF signed THEN read_sdbinteger(buf.v) ELSE read_udbinteger(buf.v)
        IN  /\ va.t \in {"SignedInteger", "UnsignedInteger"}
            /\ vb.t = va.t
            /\ signed \/ va.v[1] >= 0 \/ bytes <= 3 \/ bytes = 8
            /\ vop' = "write_integer"
            /\ vres' = [signed |-> signed, bytes |-> bytes,
                        a |-> write(va.v[1]), b |-> write(vb.v[1]),
                        back |-> read(write(va.v[1]))]
            /\ UNCHANGED <<va, vb, vc, tempdb, statement, queryplan, outcome>>

NextBytes == ToBytes \/ WriteInteger

SpecBytes == InitBytes /\ [][NextBytes]_vars

\* C11: whenever to_bytes(v, t) succeeds, from_bytes(t, to_bytes(v, t))
\* succeeds and returns cast(v, t), for every variant of v and every DbType,
\* the Integer types narrower than eight bytes included.
C11_FromBytesInvertsToBytes ==
    (vop = "to_bytes" /\ vres.bytes.k = "Ok") =>
        /\ vres.back.k = "Ok"
        /\ vres.cast.k = "Some"
        /\ vres.back.v = vres.cast.v

\* An integer is a value of the Integer type of a width: the 64-bit pattern
\* is the sign or zero extension of its low bytes.
FitsWidth(value, signed, bytes) ==
    IF signed
    THEN bytes >= 4 \/ (-(2 ^ (8 * bytes - 1)) <= value /\ value < 2 ^ (8 * bytes - 1))
    ELSE bytes = 8 \/ (value >= 0 /\ (bytes >= 4 \/ value < 2 ^ (8 * bytes)))

\* a < b as i64, or as u64 on the patterns.
IntegerLess(a, b, signed) ==
    IF signed THEN a < b ELSE (a >= 0 /\ b < 0) \/ ((a >= 0 <=> b >= 0) /\ a < b)

\* C12: for every Integer type, signed or unsigned and one to eight bytes
\* wide, and integers a < b of the type, the bytes written for a are
\* lexicographically below the bytes written for b; the signed encoding is
\* offset binary (-1 in one byte is 7F, 0 in two bytes is 80 00), and
\* reading the bytes written gives the integer back.
C12_IntegerEncodingKeepsOrder ==
    (/\ vop = "write_integer"
     /\ FitsWidth(va.v[1], vres.signed, vres.bytes)
     /\ FitsWidth(vb.v[1], vres.signed, vres.bytes)) =>
        /\ vres.a.k = "Ok" /\ vres.b.k = "Ok"
        /\ Len(vres.a.v) = vres.bytes
        /\ IntegerLess(va.v[1], vb.v[1], vres.signed) => LexLess(vres.a.v, vres.b.v)
        /\ vres.back = Ok(va.v[1])
        /\ (vres.signed /\ va.v[1] = -1 /\ vres.bytes = 1) => vres.a.v = <<127>>
        /\ (vres.signed /\ va.v[1] = 0 /\ vres.bytes = 2) => vres.a.v = <<128, 0>>

\* -1 and 0 in the signed one-byte type: 7F below 80.
C12_Witness ==
    /\ vop = "write_integer"
    /\ vres.signed
    /\ vres.bytes = 1
    /\ va.v[1] = -1
    /\ vb.v[1] = 0
    /\ vres.a = Ok(<<127>>)
    /\ vres.b = Ok(<<128>>)
    /\ vres.back = Ok(-1)

(***************************************************************************)
(* Variant::div (types/variant.rs:357-383).  The quotient of two f64 is    *)
(* the rational quotient; its rounding is not modelled.                    *)
(***************************************************************************)
\* Rust's `/` on integers: the quotient truncated towards zero.
TruncDiv(l, r) ==
    IF (l < 0) = (r < 0) THEN Abs(l) \div Abs(r) ELSE -(Abs(l) \div Abs(r))

\* `/` on u64 patterns in their signed reading; a negative reading is a
\* pattern of 2^63 or more.
UDiv(l, r) ==
    CASE r < 0 -> IF l < 0 /\ l >= r THEN 1 ELSE 0
      [] r > 0 /\ l >= 0 -> l \div r
      [] r = 1 -> l

\* `/` on i64.  i64::MIN / -1, the one quotient that overflows, is outside
\* the integers drawn.
IDiv(l, r) == TruncDiv(l, r)

FDiv(l, r) ==
    IF r[1] < 0 THEN Ratio(-(l[1] * r[2]), l[2] * (-r[1]))
    ELSE Ratio(l[1] * r[2], l[2] * r[1])

div(self, rhs) ==
    LET arms(c) ==
            IF c.k = "Panic" THEN Panic
            ELSE IF c.k = "None" THEN self
            ELSE CASE self.t = "UnsignedInteger" /\ c.v.t = "UnsignedInteger" ->
                        IF c.v.v[1] = 0 THEN Null
                        ELSE UnsignedInteger(UDiv(self.v[1], c.v.v[1]))
                   [] self.t = "SignedInteger" /\ c.v.t = "SignedInteger" ->
                        IF c.v.v[1] = 0 THEN Null
                        ELSE SignedInteger(IDiv(self.v[1], c.v.v[1]))
                   [] self.t = "Float" /\ c.v.t = "Float" ->
                        IF c.v.v[1] = 0 THEN Null
                        ELSE from_f64(FDiv(self.v, c.v.v))
                   [] OTHER -> self
    IN  arms(cast(rhs, get_dbtype(self)))

(***************************************************************************)
(* SpecArith: div on operands drawn from every variant.                    *)
(***************************************************************************)
InitArith ==
    /\ va \in Values
    /\ vb \in Values
    /\ vc = Null
    /\ vop = "none"
    /\ vres = None
    /\ tempdb = NoTables
    /\ statement = NoStmt
    /\ queryplan = None
    /\ outcome = None

Div ==
    /\ vop = "none"
    /\ vop' = "div"
    /\ vres' = div(va, vb)
    /\ UNCHANGED <<va, vb, vc, tempdb, statement, queryplan, outcome>>

NextArith == Div

SpecArith == InitArith /\ [][NextArith]_vars

IsNumeric(self) == self.t \in {"SignedInteger", "UnsignedInteger", "Float"}

CastToTypeOf(self, rhs) == cast(rhs, get_dbtype(self))

\* C21: div(a, b) with a numeric and b zero after the cast to a's type is
\* Null; div never panics, whatever the operands; and when b does not cast
\* to a's type the result is a.
C21_DivNeverPanics ==
    vop = "div" =>
        /\ vres # Panic
        /\ (IsNumeric(va) /\ CastToTypeOf(va, vb).k = "Some"
                /\ CastToTypeOf(va, vb).v.v[1] = 0) => vres = Null
        /\ CastToTypeOf(va, vb).k = "None" => vres = va

(***************************************************************************)
(* SpecTable: one table (tempdb/table.rs) under insert_row and the scan of *)
(* ScanGroup.  tempdb is the table alone; va is the column data of the     *)
(* calls that returned Ok, in call order; vres is what the last insert_row *)
(* returned and outcome what the last scan gave.                           *)
(***************************************************************************)
TableSchemas ==
    LET u8 == Integer(FALSE, 1)
        columns(types) ==
            [i \in 1..Len(types) |-> Column(i - 1, <<120, 48 + i>>, types[i][1], types[i][2])]
    IN  { columns(<< <<u8, FALSE>> >>),
          columns(<< <<DbString, TRUE>> >>),
          columns(<< <<u8, TRUE>>, <<DbString, FALSE>> >>),
          columns(<< <<DbString, TRUE>>, <<ByteDynamic, FALSE>> >>),
          columns(<< <<ByteDynamic, FALSE>>, <<DbString, TRUE>> >>),
          columns(<< <<ByteFixed(1), TRUE>>, <<ByteDynamic, TRUE>> >>) }

\* The data of one column: one byte, or the two bytes of the string "A".
ColumnData == { <<0>>, <<65, 0>> }

\* What a caller hands over for a column: data without a flag for a column
\* that is not nullable; for a nullable one, data flagged present or no
\* data flagged null.
ColumnDataOf(column) ==
    IF column.nullable
    THEN {[data |-> d, is_null |-> Some(FALSE)] : d \in ColumnData}
         \cup {[data |-> <<>>, is_null |-> Some(TRUE)]}
    ELSE {[data |-> d, is_null |-> None] : d \in ColumnData}

RowsOf(columns) ==
    {r \in [1..Len(columns) -> UNION {ColumnDataOf(columns[i]) : i \in 1..Len(columns)}] :
        \A i \in 1..Len(columns) : r[i] \in ColumnDataOf(columns[i])}

InitTable ==
    /\ va = <<>>
    /\ vb = Null
    /\ vc = Null
    /\ vop = "none"
    /\ vres = None
    /\ tempdb \in {<<Table(Str.l, columns)>> : columns \in TableSchemas}
    /\ statement = NoStmt
    /\ queryplan = None
    /\ outcome = None

InsertRow ==
    \E column_data \in RowsOf(tempdb[1].columns) :
        LET returned(r) ==
                /\ vres' = [k |-> r.k]
                /\ tempdb' = IF r.k = "Ok" THEN <<r.v>> ELSE tempdb
                /\ va' = IF r.k = "Ok" THEN Append(va, column_data) ELSE va
        IN  /\ Cardinality(tempdb[1].rowid_index) < MaxRows
            /\ vop' = "insert_row"
            /\ returned(insert_row(tempdb[1], column_data))
            /\ UNCHANGED <<vb, vc, statement, queryplan, outcome>>

ScanTable ==
    /\ vop' = "scan_table"
    /\ outcome' = scan_table(tempdb[1])
    /\ UNCHANGED <<va, vb, vc, vres, tempdb, statement, queryplan>>

NextTable == InsertRow \/ ScanTable

SpecTable == InitTable /\ [][NextTable]_vars

\* The value a column was given: Null under the null flag, else the value
\* its bytes stand for.
GivenValue(column, given) ==
    IF given.is_null = Some(TRUE) THEN Null
    ELSE from_bytes(column.dbtype, given.data).v

GivenRows ==
    [r \in 1..Len(va) |->
        [i \in 1..Len(tempdb[1].columns) |-> GivenValue(tempdb[1].columns[i], va[r][i])]]

\* C22: whatever the schema and wherever the NULLs of the accepted rows
\* are, the scan decodes every key back to the column values that were
\* inserted, in column order, and never reads outside the key.
C22_ScanDecodesInsertedValues ==
    vop = "scan_table" => outcome = Ok(GivenRows)

KeysInOrder == SortedKeys(tempdb[1].rowid_index)

RowidOf(raw_key) == read_udbinteger(SubSeq(raw_key, 1, 8)).v

\* C23: after any successful inserts the keys stand in the order of the
\* inserts, whatever the column values: there is one key per insert, each
\* starting with a rowid greater than that of every earlier key, and a scan
\* that returns gives the inserted rows in the order they were inserted.
C23_ScanInInsertionOrder ==
    LET decoded(row, i) == row.k = "Ok" => row.v = GivenRows[i]
        ordered(keys) ==
            /\ Len(keys) = Len(va)
            /\ \A i \in 1..(Len(keys) - 1) : RowidOf(keys[i]) < RowidOf(keys[i + 1])
            /\ \A i \in 1..Len(keys) : decoded(decode_row(tempdb[1], keys[i]), i)
    IN  /\ ordered(KeysInOrder)
        /\ (vop = "scan_table" /\ outcome.k = "Ok") => outcome.v = GivenRows

\* Three rows scanned, the first with the largest bytes, the first and the
\* third alike.
C23_Witness ==
    /\ vop = "scan_table"
    /\ outcome.k = "Ok"
    /\ Len(outcome.v) = 3
    /\ va[1] = va[3]
    /\ va[1][1].data = <<65, 0>>
    /\ va[2][1].data = <<0>>

\* The calls of insert_row that returned Ok are the entries of va.
\* C28: the size of rowid_index is next_rowid - 1 and is the number of calls
\* of insert_row that returned Ok; a call that returns ValidationError
\* leaves name, columns, next_rowid and rowid_index as they were.
C28_RowidCountsInserts ==
    [][/\ Cardinality(tempdb'[1].rowid_index) = tempdb'[1].next_rowid - 1
       /\ Cardinality(tempdb'[1].rowid_index) = Len(va')
       /\ (vop' = "insert_row" /\ vres' = Err) => (tempdb' = tempdb /\ va' = va)
       /\ (vop' = "insert_row" /\ vres' = [k |-> "Ok"]) =>
            /\ Len(va') = Len(va) + 1
            /\ tempdb'[1].name = tempdb[1].name
            /\ tempdb'[1].columns = tempdb[1].columns]_vars

\* A ValidationError on a table that holds two rows.
C28_Witness ==
    /\ vop = "insert_row"
    /\ vres = Err
    /\ Len(va) = 2
    /\ tempdb[1].next_rowid = 3

(***************************************************************************)
(* SpecIdent: Identifier::new on two strings, and on the stored form of    *)
(* the first.                                                              *)
(***************************************************************************)
\* ' ', '1', 'A', '[', '_', 'a'
IdentAlphabet == {32, 49, 65, 91, 95, 97}

IdentStrings == SeqsUpTo(IdentAlphabet, MaxLen)

InitIdent ==
    /\ va \in IdentStrings
    /\ vb \in IdentStrings
    /\ vc = Null
    /\ vop = "none"
    /\ vres = None
    /\ tempdb = NoTables
    /\ statement = NoStmt
    /\ queryplan = None
    /\ outcome = None

NewIdentifier ==
    LET again(ident) == IF ident.k = "Some" THEN Identifier_new(ident.v) ELSE None
    IN  /\ vop = "none"
        /\ vop' = "new"
        /\ vres' = [a |-> Identifier_new(va), b |-> Identifier_new(vb),
                    again |-> again(Identifier_new(va))]
        /\ UNCHANGED <<va, vb, vc, tempdb, statement, queryplan, outcome>>

NextIdent == NewIdentifier

SpecIdent == InitIdent /\ [][NextIdent]_vars

IsLetter(c) == c \in 65..90 \/ c \in 97..122

IsDigit(c) == c \in 48..57

WellFormedName(s) ==
    /\ s # <<>>
    /\ \A i \in 1..Len(s) : IsLetter(s[i]) \/ IsDigit(s[i]) \/ s[i] = 95 \/ s[i] = 32
    /\ ~IsDigit(s[1])
    /\ s[1] # 32

Folded(s) == [i \in 1..Len(s) |-> IF s[i] \in 65..90 THEN s[i] + 32 ELSE s[i]]

\* C24: Identifier::new(s) is an identifier exactly when s is not empty, is
\* made of ASCII letters, digits, underscore and space and starts with none
\* of digit and space; the identifier is s with its letters in lower case;
\* two identifiers are equal exactly when their strings are equal up to the
\* case of the ASCII letters; and the stored form normalizes to itself.
C24_IdentifierFoldsCase ==
    vop = "new" =>
        /\ (vres.a.k = "Some") <=> WellFormedName(va)
        /\ vres.a.k = "Some" => vres.a.v = Folded(va)
        /\ (vres.a.k = "Some" /\ vres.b.k = "Some") =>
                ((vres.a = vres.b) <=> (Folded(va) = Folded(vb)))
        /\ vres.a.k = "Some" => vres.again = vres.a

\* "A_" and "a_" are the one identifier "a_".
C24_Witness ==
    /\ vop = "new"
    /\ va = <<65, 95>>
    /\ vb = <<97, 95>>
    /\ vres.a = Some(<<97, 95>>)
    /\ vres.b = vres.a
    /\ vres.again = vres.a

(***************************************************************************)
(* SpecLexer: parse applied to strings of words, commas, slashes,          *)
(* asterisks and newlines.                                                 *)
(***************************************************************************)
MaxSql == 6         \* longest SQL text handed to the lexer

\* '\n', '*', ',', '/', 'a'
SqlAlphabet == {10, 42, 44, 47, 97}

InitLexer ==
    /\ va \in SeqsUpTo(SqlAlphabet, MaxSql)
    /\ vb = Null
    /\ vc = Null
    /\ vop = "none"
    /\ vres = None
    /\ tempdb = NoTables
    /\ statement = NoStmt
    /\ queryplan = None
    /\ outcome = None

Parse ==
    /\ vop = "none"
    /\ vop' = "parse"
    /\ vres' = parse(va)
    /\ UNCHANGED <<va, vb, vc, tempdb, statement, queryplan, outcome>>

NextLexer == Parse

SpecLexer == InitLexer /\ [][NextLexer]_vars

\* The first position from `from` on where "*/" stands, or 0.
CloseAt(sql, from) ==
    LET at == {j \in from..(Len(sql) - 1) : sql[j] = 42 /\ sql[j + 1] = 47}
    IN  IF at = {} THEN 0 ELSE CHOOSE j \in at : \A o \in at : j <= o

\* The text with every block comment replaced by one newline: a comment
\* runs from "/*" to the first "*/" that starts after it, or to the end.
RECURSIVE WithoutComments(_, _)
WithoutComments(sql, i) ==
    IF i > Len(sql) THEN <<>>
    ELSE IF sql[i] = 47 /\ i < Len(sql) /\ sql[i + 1] = 42
         THEN IF CloseAt(sql, i + 2) = 0 THEN <<10>>
              ELSE <<10>> \o WithoutComments(sql, CloseAt(sql, i + 2) + 2)
         ELSE <<sql[i]>> \o WithoutComments(sql, i + 1)

CountOf(s, x) == Cardinality({i \in 1..Len(s) : s[i] = x})

\* C26: a block comment runs from "/*" to the first "*/" whose asterisk
\* comes after the two opening characters; nothing inside it is a token and
\* the text around it is lexed as if the comment were whitespace; a '/'
\* that opens no comment is a ForwardSlash token.
C26_BlockCommentIsWhitespace ==
    vop = "parse" =>
        /\ vres.k = "Ok"
        /\ vres = parse(WithoutComments(va, 1))
        /\ CountOf(vres.v, Token("ForwardSlash")) = CountOf(WithoutComments(va, 1), 47)
        /\ CountOf(vres.v, Token("Asterisk")) = CountOf(WithoutComments(va, 1), 42)

\* a/*/*/ lexes to the one word: the '/' right after "/*" closes nothing
\* and the asterisk after it is no token.
C26_Witness ==
    /\ vop = "parse"
    /\ va = <<97, 47, 42, 47, 42, 47>>
    /\ vres = Ok(<<TokenWith("Ident", <<97>>)>>)

(***************************************************************************)
(* SpecInsert: INSERT statements with several rows of VALUES and with      *)
(* column lists, through TempDb::insert_into.                              *)
(***************************************************************************)
\* CREATE TABLE l(x INT, z STRING NULL); CREATE TABLE r(x INT NULL);
InsertCreates ==
    LET column(name, type_name, constraints) ==
            [column_name |-> name, type_name |-> type_name, type_size |-> None,
             type_array_size |-> None, constraints |-> constraints]
        create(name, columns) ==
            [table |-> [database_name |-> None, table_name |-> name],
             columns |-> columns]
    IN  << create(Str.l, <<column(Str.x, Str.int, <<>>),
                           column(Str.z, Str.string, <<"Nullable">>)>>),
           create(Str.r, <<column(Str.x, Str.int, <<"Nullable">>)>>) >>

InsertIntoStatements ==
    LET values(name, into_columns, rows) ==
            [table |-> [database_name |-> None, table_name |-> name],
             into_columns |-> into_columns, source |-> [k |-> "Values", rows |-> rows]]
        one == AstNumber(<<49>>)
        two == AstNumber(<<50>>)
        a == AstStringLiteral(<<97>>)
        b == AstStringLiteral(<<98>>)
        rx == AstSubquery(SelectStatement(<<SelectExpr(AstIdent(Str.x), None)>>,
                                          Cross(<<AstTable(Str.r, None)>>), None, <<>>, None))
    IN  << \* INSERT INTO l(z) VALUES ('a')
           values(Str.l, Some(<<Str.z>>), << <<a>> >>),
           \* INSERT INTO l(x) VALUES (1)
           values(Str.l, Some(<<Str.x>>), << <<one>> >>),
           \* INSERT INTO l(z, x) VALUES ('b', 2)
           values(Str.l, Some(<<Str.z, Str.x>>), << <<b, two>> >>),
           \* INSERT INTO l VALUES (1, 'a'), (2, NULL)
           values(Str.l, None, << <<one, a>>, <<two, AstNull>> >>),
           \* INSERT INTO l VALUES (1, 'a'), (NULL, 'b'), (2, 'a')
           values(Str.l, None, << <<one, a>>, <<AstNull, b>>, <<two, a>> >>),
           \* INSERT INTO l VALUES (2, 'b'), (1)
           values(Str.l, None, << <<two, b>>, <<one>> >>),
           \* INSERT INTO l VALUES (1, 'b'), (z, 'a')
           values(Str.l, None, << <<one, b>>, <<AstIdent(Str.z), a>> >>),
           \* INSERT INTO l VALUES (2, 'a'), ((SELECT x FROM r), 'b')
           values(Str.l, None, << <<two, a>>, <<rx, b>> >>),
           \* INSERT INTO r VALUES (1), (2)
           values(Str.r, None, << <<one>>, <<two>> >>),
           \* INSERT INTO r(x) VALUES (NULL)
           values(Str.r, Some(<<Str.x>>), << <<AstNull>> >>) >>

CreateInsertTable ==
    \E i \in 1..Len(InsertCreates) :
        /\ statement' = [k |-> "Create", v |-> InsertCreates[i]]
        /\ tempdb' = create_table(tempdb, InsertCreates[i]).db
        /\ outcome' = create_table(tempdb, InsertCreates[i]).res
        /\ queryplan' = None
        /\ UNCHANGED <<va, vb, vc, vop, vres>>

InsertInto ==
    \E i \in 1..Len(InsertIntoStatements) :
        LET replied(r) ==
                /\ tempdb' = r.db
                /\ outcome' = r.res
        IN  /\ TotalRows(tempdb) + Len(InsertIntoStatements[i].source.rows) <= MaxRows
            /\ statement' = [k |-> "Insert", v |-> InsertIntoStatements[i]]
            /\ replied(insert_into(tempdb, InsertIntoStatements[i]))
            /\ queryplan' = None
            /\ UNCHANGED <<va, vb, vc, vop, vres>>

NextInsert == CreateInsertTable \/ InsertInto

SpecInsert == InitEngine /\ [][NextInsert]_vars

\* The table an INSERT names, in a database.
TargetOf(db, insert_stmt) == find_table_by_name(db, insert_stmt.table.table_name)

\* The key inserted last into a table.
LastKey(table) == SortedKeys(table.rowid_index)[Cardinality(table.rowid_index)]

Named(insert_stmt, column) ==
    \E i \in 1..Len(insert_stmt.into_columns.v) :
        insert_stmt.into_columns.v[i] = column.name

\* C27: an INSERT that names only some of the columns succeeds whatever
\* the types of the others, and its row has NULL in every omitted nullable
\* column and the default of the type in every omitted column that is not
\* nullable; insert_row's assertions hold on the way.
C27_OmittedColumnsGetDefaults ==
    (/\ statement.k = "Insert"
     /\ statement.v.into_columns.k = "Some"
     /\ TargetOf(tempdb, statement.v).k = "Some") =>
        LET table == TargetOf(tempdb, statement.v).v
            stored(row) ==
                /\ row.k = "Ok"
                /\ \A c \in 1..Len(table.columns) :
                        Named(statement.v, table.columns[c])
                        \/ row.v[c] = IF table.columns[c].nullable THEN Null
                                      ELSE from_bytes(table.columns[c].dbtype,
                                                      get_default(table.columns[c].dbtype)).v
        IN  /\ outcome = [k |-> "Inserted", count |-> 1]
            /\ stored(decode_row(table, LastKey(table)))

\* The statement cut down to its first n rows.
FirstRows(insert_stmt, n) ==
    [insert_stmt EXCEPT !.source.rows = SubSeq(@, 1, n)]

\* C29: INSERT .. VALUES goes row by row.  When a row fails the statement
\* returns an error, the rows before it are in the table, that row and the
\* rows after it are not, and no other table has changed; Inserted(n) is
\* returned only when every row went in, with n the number of rows.
C29_RowsInsertedOneByOne ==
    [][(statement'.k = "Insert" /\ TargetOf(tempdb, statement'.v).k = "Some"
            /\ outcome' # Panic) =>
        LET rows == statement'.v.source.rows
            before == TargetOf(tempdb, statement'.v).v
            after == TargetOf(tempdb', statement'.v).v
            added == Cardinality(after.rowid_index) - Cardinality(before.rowid_index)
        IN  /\ outcome'.k \in {"Inserted", "Err"}
            /\ outcome'.k = "Inserted" => (outcome'.count = Len(rows) /\ added = Len(rows))
            /\ outcome'.k = "Err" =>
                /\ added < Len(rows)
                /\ insert_into(tempdb, FirstRows(statement'.v, added)) =
                        Reply(tempdb', [k |-> "Inserted", count |-> added])
                /\ insert_into(tempdb, FirstRows(statement'.v, added + 1)) = Reply(tempdb', Err)
            /\ before.rowid_index \subseteq after.rowid_index
            /\ Len(tempdb') = Len(tempdb)
            /\ \A t \in 1..Len(tempdb) : tempdb[t].name # before.name => tempdb'[t] = tempdb[t]]_vars

\* INSERT INTO l VALUES (2, 'b'), (1) next to a table r of one row: an
\* error, l holds the row (2, 'b') alone and r is as it was.
C29_Witness ==
    /\ statement.k = "Insert"
    /\ statement.v = InsertIntoStatements[6]
    /\ outcome = Err
    /\ Len(tempdb) = 2
    /\ Cardinality(TargetOf(tempdb, statement.v).v.rowid_index) = 1
    /\ Cardinality(tempdb[1].rowid_index) + Cardinality(tempdb[2].rowid_index) = 2

(***************************************************************************)
(* SpecNested: SELECT statements with nested queries compiled; the sources *)
(* and the nesting of the queries of the plan.                              *)
(***************************************************************************)
\* SELECT (SELECT (SELECT count(*) FROM l) FROM r)
\*   FROM (SELECT x FROM (SELECT x FROM l) m) m;
\* SELECT count(*) FROM l LEFT JOIN (SELECT x FROM r GROUP BY x) m ON l.x = m.x;
\* SELECT (SELECT sum(m.x) FROM (SELECT x FROM r) m GROUP BY x) FROM l
\*   JOIN r ON l.x = (SELECT max(x) FROM r) GROUP BY z HAVING count(*) = 1;
\* SELECT m.x FROM (SELECT x FROM l) l, (SELECT x FROM r) m;
NestedStatements ==
    LET x == AstIdent(Str.x)
        z == AstIdent(Str.z)
        l == AstTable(Str.l, None)
        r == AstTable(Str.r, None)
        lx == AstIdentMember(Str.l, Str.x)
        mx == AstIdentMember(Str.m, Str.x)
        col(e) == SelectExpr(e, None)
        count_all == AstFunctionCallAggregateAll(Str.count)
        call(name, e) == AstFunctionCall(name, <<e>>)
        from(result_columns, tables, group_by, having) ==
            SelectStatement(result_columns, Cross(tables), None, group_by, having)
        joined(result_columns, table, joins, group_by, having) ==
            SelectStatement(result_columns, Join(table, joins), None, group_by, having)
        sub(e, tables) == AstSubquery(from(<<col(e)>>, tables, <<>>, None))
        xs(table, alias) == AstFromSubquery(from(<<col(x)>>, <<table>>, <<>>, None), alias)
    IN  << from(<<col(sub(sub(count_all, <<l>>), <<r>>))>>,
                <<xs(xs(l, Str.m), Str.m)>>, <<>>, None),
           joined(<<col(count_all)>>, l,
                  <<AstJoin("Left", AstFromSubquery(from(<<col(x)>>, <<r>>, <<x>>, None), Str.m),
                            AstBinaryOp("Equal", lx, mx))>>, <<>>, None),
           joined(<<col(AstSubquery(from(<<col(call(Str.sum, mx))>>, <<xs(r, Str.m)>>,
                                         <<x>>, None)))>>, l,
                  <<AstJoin("Inner", r, AstBinaryOp("Equal", lx, sub(call(Str.max, x), <<r>>)))>>,
                  <<z>>, Some(AstBinaryOp("Equal", count_all, AstNumber(<<49>>)))),
           from(<<col(mx)>>, <<xs(l, Str.l), xs(r, Str.m)>>, <<>>, None) >>

\* Every statement of CompileStatements, JoinStatements, ScalarStatements
\* and NestedStatements is compiled against the tables created so far.
NestedCompileStatements ==
    CompileStatements \o JoinStatements \o ScalarStatements \o NestedStatements

CompileNested ==
    \E i \in 1..Len(NestedCompileStatements) :
        /\ statement' = [k |-> "Select", v |-> NestedCompileStatements[i]]
        /\ queryplan' = compile_select(tempdb, NestedCompileStatements[i])
        /\ outcome' = None
        /\ UNCHANGED <<tempdb, va, vb, vc, vop, vres>>

NextNested == CreateTable \/ CompileNested

SpecNested == InitEngine /\ [][NextNested]_vars

\* The source ids of the nodes of a plan that bring a source in (Scan, Map,
\* LeftJoin, TempGroupBy), one entry per node, as a sequence.
RECURSIVE HandedOut(_)
RECURSIVE HandedOutOfEach(_)
HandedOut(expr) ==
    CASE expr.k = "Scan" -> <<expr.source_id>> \o HandedOut(expr.yield_fn)
      [] expr.k = "Map" ->
            <<expr.source_id>> \o HandedOut(expr.yield_in_fn) \o HandedOut(expr.yield_out_fn)
      [] expr.k = "TempGroupBy" ->
            <<expr.source_id>> \o HandedOut(expr.yield_in_fn)
            \o HandedOutOfEach(expr.group_by_values) \o HandedOut(expr.yield_out_fn)
      [] expr.k = "LeftJoin" ->
            <<expr.source_id>> \o HandedOut(expr.yield_in_fn) \o HandedOut(expr.predicate)
            \o HandedOut(expr.yield_out_fn)
      [] expr.k = "Yield" -> HandedOutOfEach(expr.fields)
      [] expr.k = "If" ->
            HandedOutOfEach([i \in 1..Len(expr.chains) |-> expr.chains[i].predicate])
            \o HandedOutOfEach([i \in 1..Len(expr.chains) |-> expr.chains[i].yield_fn])
            \o (IF expr.else_.k = "Some" THEN HandedOut(expr.else_.v) ELSE <<>>)
      [] expr.k = "UnaryOp" -> HandedOut(expr.expr)
      [] expr.k = "BinaryOp" -> HandedOut(expr.lhs) \o HandedOut(expr.rhs)
      [] expr.k = "AggregateOp" -> HandedOut(expr.value)
      [] OTHER -> <<>>

HandedOutOfEach(exprs) ==
    IF exprs = <<>> THEN <<>> ELSE HandedOut(Head(exprs)) \o HandedOutOfEach(Tail(exprs))

\* The Map nodes of a plan: each holds the plan of a nested SELECT in
\* yield_in_fn and the source_id the enclosing query gave it.
RECURSIVE MapNodes(_)
MapNodes(expr) ==
    CASE expr.k = "Scan" -> MapNodes(expr.yield_fn)
      [] expr.k = "Map" ->
            {expr} \cup MapNodes(expr.yield_in_fn) \cup MapNodes(expr.yield_out_fn)
      [] expr.k = "TempGroupBy" ->
            MapNodes(expr.yield_in_fn) \cup MapNodes(expr.yield_out_fn)
            \cup UNION {MapNodes(expr.group_by_values[i]) : i \in 1..Len(expr.group_by_values)}
      [] expr.k = "LeftJoin" ->
            MapNodes(expr.yield_in_fn) \cup MapNodes(expr.predicate)
            \cup MapNodes(expr.yield_out_fn)
      [] expr.k = "Yield" -> UNION {MapNodes(expr.fields[i]) : i \in 1..Len(expr.fields)}
      [] expr.k = "If" ->
            UNION {MapNodes(expr.chains[i].predicate) \cup MapNodes(expr.chains[i].yield_fn) :
                        i \in 1..Len(expr.chains)}
            \cup (IF expr.else_.k = "Some" THEN MapNodes(expr.else_.v) ELSE {})
      [] expr.k = "UnaryOp" -> MapNodes(expr.expr)
      [] expr.k = "BinaryOp" -> MapNodes(expr.lhs) \cup MapNodes(expr.rhs)
      [] expr.k = "AggregateOp" -> MapNodes(expr.value)
      [] OTHER -> {}

Range(s) == {s[i] : i \in 1..Len(s)}

\* C30: within one compile_select the source ids handed out are pairwise
\* different, source_id_to_query_id is defined on 0 .. next_source_id - 1
\* and on nothing else (no insert assertion fails and every lookup of a
\* source id finds its query), and the sources of a nested SELECT belong to
\* queries whose id is greater than the id of the query that encloses it.
C30_SourceAndQueryIdsFresh ==
    /\ queryplan # Panic
    /\ PlanCompiled =>
        LET source_id_to_query_id == queryplan.self.source_id_to_query_id
            handed_out == HandedOut(queryplan.v.expr)
        IN  /\ \A i, j \in 1..Len(handed_out) : handed_out[i] = handed_out[j] => i = j
            /\ Range(handed_out) = 0..(queryplan.self.next_source_id - 1)
            /\ DOMAIN source_id_to_query_id = Range(handed_out)
            /\ \A s \in DOMAIN source_id_to_query_id :
                    source_id_to_query_id[s] \in 0..(queryplan.self.next_query_id - 1)
            /\ \A m \in MapNodes(queryplan.v.expr) :
                    \A s \in Range(HandedOut(m.yield_in_fn)) :
                        source_id_to_query_id[s] > source_id_to_query_id[m.source_id]

\* The first statement of NestedStatements: two FROM subqueries and two
\* scalar subqueries, one inside the other, make five queries and eight
\* sources, the last the grouped source of count(*).
C30_Witness ==
    /\ PlanCompiled
    /\ statement.v = NestedStatements[1]
    /\ queryplan.self.next_query_id = 5
    /\ queryplan.self.next_source_id = 8
    /\ Cardinality(MapNodes(queryplan.v.expr)) = 4

====
